---- MODULE Spec2Model ----
(***************************************************************************)
(* cp-judge: the execution orchestrator (server/api/executor.js), the      *)
(* process supervisor (server/utils/timeout.js), the workspace manager     *)
(* (server/utils/fileSystem.js), the compiler and runner stages and the    *)
(* verdict classifier, as a state machine.                                 *)
(*                                                                         *)
(* Every executeCode call is a run r in Runs.  An await of the code is a   *)
(* boundary between two actions; everything between two awaits is one      *)
(* action.  Operating-system processes (the spawned child and one          *)
(* descendant it may fork) and the file system are the environment: their  *)
(* steps are actions of their own, never fair.                             *)
(***************************************************************************)
EXTENDS Integers, Sequences, FiniteSets, TLC

\* ------------------------------------------------------------------ bounds
NumRuns == 2
MaxTests == 2
MaxClock == 1
MaxChunks == 1
MaxOutcomes == 3
MaxEntries == 3
MaxLen == 4
MaxMessages == 2
MaxClicks == 2

Runs == 1..NumRuns

\* --------------------------------------------------------- program constants
DEFAULT_TIME_LIMIT == 2000
COMPILE_TIMEOUT == 10000

\* JavaScript null / undefined: the empty tuple; a present value v is <<v>>
NULL == <<>>
Some(v) == <<v>>

\* ------------------------------------------------------------------- texts
\* A text is a sequence of one-character strings.
CR == "\r"
LF == "\n"
SP == " "
TAB == "\t"
FF == "\f"
\* the line separator U+2028, one character of a JavaScript string
LS == "u2028"

\* where $ matches under the m flag: at the end and before a line terminator
LineTerminators == {LF, CR, LS}

\* a replacement of every \r by \n, the \r of a \r\n included
ReplaceCRLF_eachCR(s) == [k \in 1..Len(s) |-> IF s[k] = CR THEN LF ELSE s[k]]

RECURSIVE ReplaceCRLF(_)
\* .replace(/\r\n/g, '\n').replace(/\r/g, '\n')
ReplaceCRLF(s) ==
    IF s = <<>> THEN <<>>
    ELSE IF Head(s) = CR
         THEN IF Len(s) >= 2 /\ s[2] = LF
              THEN <<LF>> \o ReplaceCRLF(SubSeq(s, 3, Len(s)))
              ELSE <<LF>> \o ReplaceCRLF(Tail(s))
         ELSE <<Head(s)>> \o ReplaceCRLF(Tail(s))

\* the position after the maximal run of spaces and tabs that starts at i
RECURSIVE RunEnd(_, _)
RunEnd(s, i) ==
    IF i <= Len(s) /\ s[i] \in {SP, TAB} THEN RunEnd(s, i + 1) ELSE i

\* no removal of the blanks at the line ends
StripLineEnds_none(s) == s

\* .replace(/[ \t]+$/gm, ''): a blank goes when its run ends at a line end
StripLineEnds(s) ==
    LET keep(i) == ~ (s[i] \in {SP, TAB}
                      /\ (RunEnd(s, i) > Len(s)
                          \/ s[RunEnd(s, i)] \in LineTerminators))
        idx == {i \in 1..Len(s) : keep(i)}
        RECURSIVE build(_)
        build(i) == IF i > Len(s) THEN <<>>
                    ELSE IF i \in idx THEN <<s[i]>> \o build(i + 1)
                    ELSE build(i + 1)
    IN  build(1)

RECURSIVE StripTrailing(_, _)
StripTrailing(s, cs) ==
    IF s # <<>> /\ s[Len(s)] \in cs THEN StripTrailing(SubSeq(s, 1, Len(s) - 1), cs)
    ELSE s

RECURSIVE StripLeading(_, _)
StripLeading(s, cs) ==
    IF s # <<>> /\ Head(s) \in cs THEN StripLeading(Tail(s), cs) ELSE s

WhiteSpace == {SP, TAB, LF, CR, FF, LS}

\* String.prototype.trim
Trim(s) == StripLeading(StripTrailing(s, WhiteSpace), WhiteSpace)

UpperCase == <<"A", "B", "C", "D", "E", "F", "G", "H", "I", "J", "K", "L", "M",
               "N", "O", "P", "Q", "R", "S", "T", "U", "V", "W", "X", "Y", "Z">>
LowerCase == <<"a", "b", "c", "d", "e", "f", "g", "h", "i", "j", "k", "l", "m",
               "n", "o", "p", "q", "r", "s", "t", "u", "v", "w", "x", "y", "z">>

ToLower(c) ==
    IF \E k \in 1..26 : UpperCase[k] = c
    THEN LowerCase[CHOOSE k \in 1..26 : UpperCase[k] = c]
    ELSE c

LowerText(s) == [k \in 1..Len(s) |-> ToLower(s[k])]

\* a normalization that removes the trailing newlines before the blanks at
\* the line ends, and does not trim
strictNormalizeOutput_newlinesFirst(output) ==
    StripLineEnds(StripTrailing(ReplaceCRLF(output), {LF}))

\* a normalization that also folds the case (aggressiveNormalizeOutput)
strictNormalizeOutput_lowerCase(output) ==
    LowerText(Trim(StripTrailing(StripLineEnds(ReplaceCRLF(output)), {LF})))

strictNormalizeOutput(output) ==
    Trim(StripTrailing(StripLineEnds(ReplaceCRLF(output)), {LF}))

\* a comparison of the raw texts
compareOutputs_raw(actual, expected) == actual = expected

compareOutputs(actual, expected) ==
    strictNormalizeOutput(actual) = strictNormalizeOutput(expected)

\* does text s contain the word w, whatever the case (a /w/i test)
ContainsI(s, w) ==
    \E k \in 1..(Len(s) - Len(w) + 1) :
        SubSeq(LowerText(s), k, k + Len(w) - 1) = w

\* the words of the /i patterns, in lower case
PatternText ==
    [error |-> <<"e", "r", "r", "o", "r">>,
     errorColon |-> <<"e", "r", "r", "o", "r", ":">>,
     exception |-> <<"e", "x", "c", "e", "p", "t", "i", "o", "n">>,
     segfault |-> <<"s", "e", "g", "m", "e", "n", "t", "a", "t", "i", "o",
         "n", " ", "f", "a", "u", "l", "t">>,
     coreDumped |-> <<"c", "o", "r", "e", " ", "d", "u", "m", "p", "e",
         "d">>,
     undefinedReference |-> <<"u", "n", "d", "e", "f", "i", "n", "e", "d",
         " ", "r", "e", "f", "e", "r", "e", "n", "c", "e">>,
     cannotFindSymbol |-> <<"c", "a", "n", "n", "o", "t", " ", "f", "i",
         "n", "d", " ", "s", "y", "m", "b", "o", "l">>,
     syntaxError |-> <<"s", "y", "n", "t", "a", "x", "e", "r", "r", "o",
         "r">>,
     indentationError |-> <<"i", "n", "d", "e", "n", "t", "a", "t", "i",
         "o", "n", "e", "r", "r", "o", "r">>,
     nameError |-> <<"n", "a", "m", "e", "e", "r", "r", "o", "r">>,
     typeError |-> <<"t", "y", "p", "e", "e", "r", "r", "o", "r">>,
     referenceError |-> <<"r", "e", "f", "e", "r", "e", "n", "c", "e",
         "e", "r", "r", "o", "r">>]

\* ------------------------------------------------- language configuration
LANGUAGES ==
    [cpp |-> [needsCompilation |-> TRUE, executable |-> "main",
              errorPatterns |-> {PatternText.errorColon,
                                 PatternText.undefinedReference,
                                 PatternText.segfault}],
     java |-> [needsCompilation |-> TRUE, executable |-> "Main.class",
               errorPatterns |-> {PatternText.errorColon, PatternText.exception,
                                  PatternText.cannotFindSymbol}],
     python |-> [needsCompilation |-> FALSE, executable |-> "",
                 errorPatterns |-> {PatternText.syntaxError, PatternText.indentationError,
                                    PatternText.nameError, PatternText.typeError}],
     javascript |-> [needsCompilation |-> FALSE, executable |-> "",
                     errorPatterns |-> {PatternText.syntaxError,
                                        PatternText.referenceError,
                                        PatternText.typeError}]]

\* LANGUAGES[langId] || null
getLanguage(langId) ==
    IF langId \in DOMAIN LANGUAGES THEN Some(LANGUAGES[langId]) ELSE NULL

\* ---------------------------------------------------------------- verdicts
VERDICTS == [AC |-> "AC", WA |-> "WA", TLE |-> "TLE", RE |-> "RE", CE |-> "CE"]

\* does text s include the text w (String.prototype.includes)
Includes(s, w) ==
    \E k \in 1..(Len(s) - Len(w) + 1) : SubSeq(s, k, k + Len(w) - 1) = w

Digits == <<"0", "1", "2", "3", "4", "5", "6", "7", "8", "9">>

\* `${n}` for an integer n
RECURSIVE IntToText(_)
IntToText(n) ==
    IF n < 0 THEN <<"-">> \o IntToText(0 - n)
    ELSE IF n < 10 THEN <<Digits[n + 1]>>
    ELSE IntToText(n \div 10) \o <<Digits[(n % 10) + 1]>>

\* the messages of the verdicts
MessageText ==
    [timeLimitExceeded |-> <<"T", "i", "m", "e", " ", "L", "i", "m", "i",
         "t", " ", "E", "x", "c", "e", "e", "d", "e", "d">>,
     exitCodePrefix |-> <<"R", "u", "n", "t", "i", "m", "e", " ", "E",
         "r", "r", "o", "r", " ", "(", "e", "x", "i", "t", " ", "c", "o",
         "d", "e", ":", " ">>,
     stderrError |-> <<"R", "u", "n", "t", "i", "m", "e", " ", "E", "r",
         "r", "o", "r", " ", "d", "e", "t", "e", "c", "t", "e", "d", " ",
         "i", "n", " ", "s", "t", "d", "e", "r", "r">>,
     accepted |-> <<"A", "c", "c", "e", "p", "t", "e", "d">>,
     wrongAnswer |-> <<"W", "r", "o", "n", "g", " ", "A", "n", "s", "w",
         "e", "r">>]

\* a timeout that counts only for a process that printed nothing
TimedOutRule_silentOnly(executionResult) ==
    executionResult.timedOut /\ executionResult.stdout = <<>>

\* if (timedOut)
TimedOutRule(executionResult) == executionResult.timedOut

\* a test that takes only positive exit codes for failures
ExitCodeRule_positiveOnly(exitCode) == exitCode # NULL /\ exitCode[1] > 0

\* if (exitCode !== 0 && exitCode !== null)
ExitCodeRule(exitCode) == exitCode # Some(0) /\ exitCode # NULL

\* a fault pattern without the i flag
StderrRule_caseSensitive(stderr) ==
    /\ stderr # <<>> /\ Len(Trim(stderr)) > 0
    /\ \/ Includes(stderr, PatternText.error)
       \/ Includes(stderr, PatternText.exception)
       \/ Includes(stderr, PatternText.segfault)
       \/ Includes(stderr, PatternText.coreDumped)

\* if (stderr && stderr.trim().length > 0) and the test of the fault pattern
StderrRule(stderr) ==
    /\ stderr # <<>> /\ Len(Trim(stderr)) > 0
    /\ \/ ContainsI(stderr, PatternText.error)
       \/ ContainsI(stderr, PatternText.exception)
       \/ ContainsI(stderr, PatternText.segfault)
       \/ ContainsI(stderr, PatternText.coreDumped)

\* The returned object.  Only the exit-code branch adds the field exitCode;
\* no branch adds a field diff.
determineVerdict(executionResult, expectedOutput) ==
    LET stdout == executionResult.stdout
        stderr == executionResult.stderr
        exitCode == executionResult.exitCode
        made(v, m) == [verdict |-> v, message |-> m, actualOutput |-> stdout,
                       expectedOutput |-> expectedOutput, stderr |-> stderr]
    IN  IF TimedOutRule(executionResult)
        THEN made(VERDICTS.TLE, MessageText.timeLimitExceeded)
        ELSE IF ExitCodeRule(exitCode)
        THEN [verdict |-> VERDICTS.RE,
              message |-> MessageText.exitCodePrefix \o IntToText(exitCode[1]) \o <<")">>,
              actualOutput |-> stdout, expectedOutput |-> expectedOutput,
              stderr |-> stderr, exitCode |-> exitCode]
        ELSE IF StderrRule(stderr)
        THEN made(VERDICTS.RE, MessageText.stderrError)
        ELSE IF compareOutputs(stdout, expectedOutput)
        THEN made(VERDICTS.AC, MessageText.accepted)
        ELSE made(VERDICTS.WA, MessageText.wrongAnswer)

\* ------------------------------------------------------------ the diff
\* the fixed parts of the messages and of the summary
DiffText ==
    [line |-> <<"L", "i", "n", "e", " ">>,
     extraGot |-> <<":", " ", "E", "x", "t", "r", "a", " ", "l", "i", "n",
         "e", " ", "(", "g", "o", "t", " ", "\"">>,
     quoteParen |-> <<"\"", ")">>,
     missingExpected |-> <<":", " ", "M", "i", "s", "s", "i", "n", "g",
         " ", "(", "e", "x", "p", "e", "c", "t", "e", "d", " ", "\"">>,
     expectedQuote |-> <<":", " ", "E", "x", "p", "e", "c", "t", "e", "d",
         " ", "\"">>,
     butGot |-> <<"\"", " ", "b", "u", "t", " ", "g", "o", "t", " ", "\"">>,
     quote |-> <<"\"">>,
     matchPerfectly |-> <<"O", "u", "t", "p", "u", "t", "s", " ", "m", "a",
         "t", "c", "h", " ", "p", "e", "r", "f", "e", "c", "t", "l", "y">>,
     differentLines |-> <<" ", "d", "i", "f", "f", "e", "r", "e", "n", "t",
         " ", "l", "i", "n", "e", "(", "s", ")">>,
     missingLines |-> <<" ", "m", "i", "s", "s", "i", "n", "g", " ", "l",
         "i", "n", "e", "(", "s", ")">>,
     extraLines |-> <<" ", "e", "x", "t", "r", "a", " ", "l", "i", "n",
         "e", "(", "s", ")">>,
     commaSpace |-> <<",", " ">>]

Min2(a, b) == IF a <= b THEN a ELSE b
Max2(a, b) == IF a >= b THEN a ELSE b

\* s.split('\n')
RECURSIVE Split(_)
Split(s) ==
    IF \A k \in 1..Len(s) : s[k] # LF THEN <<s>>
    ELSE LET k == CHOOSE k \in 1..Len(s) :
                      s[k] = LF /\ \A j \in 1..(k - 1) : s[j] # LF
         IN  <<SubSeq(s, 1, k - 1)>> \o Split(SubSeq(s, k + 1, Len(s)))

\* parts.join(', ')
RECURSIVE Join(_)
Join(parts) ==
    IF parts = <<>> THEN <<>>
    ELSE IF Len(parts) = 1 THEN parts[1]
    ELSE parts[1] \o DiffText.commaSpace \o Join(Tail(parts))

\* a character diff whose length difference is expected minus actual
getCharacterDiff_expectedMinusActual(expected, actual) ==
    LET minLen == Min2(Len(expected), Len(actual))
        diffs == {k \in 0..(minLen - 1) : expected[k + 1] # actual[k + 1]}
    IN  [position |-> IF diffs # {} THEN CHOOSE k \in diffs : \A j \in diffs : k <= j
                      ELSE IF Len(expected) # Len(actual) THEN minLen ELSE 0 - 1,
         expectedLength |-> Len(expected),
         actualLength |-> Len(actual),
         lengthDifference |-> Len(expected) - Len(actual)]

getCharacterDiff(expected, actual) ==
    LET minLen == Min2(Len(expected), Len(actual))
        diffs == {k \in 0..(minLen - 1) : expected[k + 1] # actual[k + 1]}
        firstDiff ==
            IF diffs # {} THEN CHOOSE k \in diffs : \A j \in diffs : k <= j
            ELSE IF Len(expected) # Len(actual) THEN minLen ELSE 0 - 1
    IN  [position |-> firstDiff,
         expectedLength |-> Len(expected),
         actualLength |-> Len(actual),
         lengthDifference |-> Len(actual) - Len(expected)]

\* the entries generateDiff pushes for the indices i, i + 1, ..., maxLines - 1;
\* a line that is present is Some(line), a line that is absent is null
RECURSIVE DiffScan(_, _, _, _)
DiffScan(expectedLines, actualLines, i, maxLines) ==
    IF i >= maxLines THEN <<>>
    ELSE
    LET expectedLine == IF i + 1 <= Len(expectedLines)
                        THEN Some(expectedLines[i + 1]) ELSE NULL
        actualLine == IF i + 1 <= Len(actualLines)
                      THEN Some(actualLines[i + 1]) ELSE NULL
        entry ==
            IF expectedLine = NULL
            THEN <<[lineNumber |-> i + 1, type |-> "extra",
                    expected |-> NULL, actual |-> actualLine,
                    message |-> DiffText.line \o IntToText(i + 1) \o DiffText.extraGot
                                    \o actualLine[1] \o DiffText.quoteParen]>>
            ELSE IF actualLine = NULL
            THEN <<[lineNumber |-> i + 1, type |-> "missing",
                    expected |-> expectedLine, actual |-> NULL,
                    message |-> DiffText.line \o IntToText(i + 1) \o DiffText.missingExpected
                                    \o expectedLine[1] \o DiffText.quoteParen]>>
            ELSE IF expectedLine # actualLine
            THEN <<[lineNumber |-> i + 1, type |-> "different",
                    expected |-> expectedLine, actual |-> actualLine,
                    message |-> DiffText.line \o IntToText(i + 1) \o DiffText.expectedQuote
                                    \o expectedLine[1] \o DiffText.butGot
                                    \o actualLine[1] \o DiffText.quote,
                    characterDiff |-> getCharacterDiff(expectedLine[1],
                                                       actualLine[1])]>>
            ELSE <<>>
    IN  entry \o DiffScan(expectedLines, actualLines, i + 1, maxLines)

generateSummary(differences) ==
    IF Len(differences) = 0 THEN DiffText.matchPerfectly
    ELSE
    LET counts == [t \in {"missing", "extra", "different"} |->
                      Cardinality({k \in 1..Len(differences) :
                                      differences[k].type = t})]
        part(t, text) == IF counts[t] > 0 THEN <<IntToText(counts[t]) \o text>>
                         ELSE <<>>
    IN  Join(part("different", DiffText.differentLines)
                 \o part("missing", DiffText.missingLines)
                 \o part("extra", DiffText.extraLines))

generateDiff(expected, actual) ==
    LET expectedLines == Split(expected)
        actualLines == Split(actual)
        maxLines == Max2(Len(expectedLines), Len(actualLines))
        differences == DiffScan(expectedLines, actualLines, 0, maxLines)
    IN  [hasDifferences |-> Len(differences) > 0,
         totalLines |-> maxLines,
         differenceCount |-> Len(differences),
         differences |-> differences,
         summary |-> generateSummary(differences)]

\* ------------------------------------------------------------------- state
VARIABLES
    platform,       \* process.platform: "posix" or "win32"
    now,            \* Date.now()
    randCount,      \* number of randomBytes(8) values drawn so far
    fsDirs,         \* the workspace directories that exist under WORKSPACE_ROOT
    fsFiles,        \* the files in them: pairs <<workspace, file name>>
    lang,           \* per run: languageId
    testCases,      \* per run: the list of {input, expectedOutput}
    pc,             \* per run: position in executeCode
    workspacePath,  \* per run: the local variable workspacePath
    i,              \* per run: the loop index (number of test cases done)
    results,        \* per run: the local array results
    outcome,        \* per run: how the call settles (returned value or throw)
    cleanup,        \* per run: state of the cleanupWorkspace call
    sup,            \* per run: the executeWithTimeout call in flight
    proc,           \* per run: the spawned child and its descendant
    hist,           \* per run: history counters (calls made so far)
    call,           \* a direct call of a pure function: its name and arguments
    ret,            \* what that call returned (null before it has run)
    timeLimit,      \* per run: the timeLimit of the request (null: omitted)
    totalTime,      \* per run: the local variable totalTime
    currentProblem,       \* background worker: let currentProblem
    executionInProgress,  \* background worker: let executionInProgress
    storage,        \* chrome.storage.local: the value of the key currentProblem
    handler,        \* background worker: the onMessage handlers in flight
    runBtn,         \* popup: the Run button
    runTests,       \* popup: the runTests calls in flight
    clearAcked      \* history: CLEAR_PROBLEM was answered and no STORE_PROBLEM
                    \* has arrived since

\* the state of the browser extension
extVars == <<currentProblem, executionInProgress, storage, handler, runBtn, runTests,
             clearAcked>>

\* the state of the server
srvVars == <<timeLimit, totalTime, call, ret, platform, now, randCount, fsDirs,
             fsFiles, lang, testCases, pc, workspacePath, i, results, outcome,
             cleanup, sup, proc, hist>>

vars == <<extVars, timeLimit, totalTime, call, ret, platform, now, randCount, fsDirs,
          fsFiles, lang, testCases, pc, workspacePath, i, results, outcome, cleanup,
          sup, proc, hist>>

Platforms == {"posix", "win32"}

\* language ids a request may carry: a compiled one, an interpreted one
\* and one that has no configuration
LangIds == {"cpp", "python", "ruby"}

\* testCase.input is "str" (a string), "null" (JSON null) or "num" (a value
\* that is no string, such as a number): the route checks only that the
\* property exists
ExpectedOutputs == {<<"5">>, <<"6">>}

TestCaseSet ==
    [input : {"str"}, expectedOutput : ExpectedOutputs]
        \cup [input : {"null", "num"}, expectedOutput : {<<"5">>}]

TestLists == UNION {[1..n -> TestCaseSet] : n \in 1..MaxTests}

\* what a process may write in one chunk
StdoutChunks == {<<"5", LF>>}
StderrChunks == {PatternText.errorColon}

\* exit codes of a process that exits by itself
ExitCodes == {0, 1}

NoSup ==
    [kind |-> "none", timeout |-> 0, promise |-> "none", timer |-> "none",
     timedOut |-> FALSE, killed |-> FALSE, stdout |-> <<>>, stderr |-> <<>>,
     nOut |-> 0, nErr |-> 0, closeSeen |-> FALSE, errorSeen |-> FALSE,
     stdinError |-> FALSE, kills |-> 0, result |-> NULL]

NoProc ==
    [child |-> "none", code |-> NULL, signal |-> "", pipe |-> FALSE,
     desc |-> "none", descInGroup |-> FALSE, descPipe |-> FALSE,
     leaked |-> FALSE]

\* history: calls made so far by the run, and what they did
NoHist == [compileSpawns |-> 0, runSpawns |-> 0, cleanupCalls |-> 0, rmCalls |-> 0,
           rmFails |-> 0, deleted |-> 0, created |-> 0, compiled |-> "none",
           firedAtResolve |-> FALSE]

\* the message handlers the background worker may have in flight, and the
\* runTests calls of the popup
Handlers == 1..MaxMessages
PopupCalls == 1..MaxClicks

\* afterClear is history: the message arrived while clearAcked
NoHandler ==
    [type |-> "none", pc |-> "idle", data |-> NULL, response |-> NULL,
     afterClear |-> FALSE]

NoRunTests == [pc |-> "idle", h |-> 0]

\* the extension before any message: a worker that has just started with
\* nothing stored, a popup that has just been opened
ExtIdle ==
    /\ currentProblem = NULL
    /\ executionInProgress = FALSE
    /\ storage = NULL
    /\ handler = [h \in Handlers |-> NoHandler]
    /\ runBtn = [disabled |-> FALSE]
    /\ runTests = [c \in PopupCalls |-> NoRunTests]
    /\ clearAcked = FALSE

\* the state of the server before the calls take their first step
Idle ==
    /\ totalTime = [r \in Runs |-> 0]
    /\ now = 0
    /\ randCount = 0
    /\ fsDirs = {}
    /\ fsFiles = {}
    /\ workspacePath = [r \in Runs |-> NULL]
    /\ i = [r \in Runs |-> 0]
    /\ results = [r \in Runs |-> <<>>]
    /\ outcome = [r \in Runs |-> NULL]
    /\ cleanup = [r \in Runs |-> "none"]
    /\ sup = [r \in Runs |-> NoSup]
    /\ proc = [r \in Runs |-> NoProc]
    /\ hist = [r \in Runs |-> NoHist]

\* no pure function is being called directly
NoCall == [fn |-> "none"]

OneTest == <<[input |-> "str", expectedOutput |-> <<"5">>]>>

\* one executeCode call, with every request of the bounded input sets
Init ==
    /\ Idle /\ ExtIdle
    /\ timeLimit = [r \in Runs |-> NULL]
    /\ call = NoCall /\ ret = NULL
    /\ platform \in Platforms
    /\ lang \in [Runs -> LangIds] /\ \A r \in Runs \ {1} : lang[r] = "cpp"
    /\ testCases \in [Runs -> TestLists] /\ \A r \in Runs \ {1} : testCases[r] = OneTest
    /\ pc = [r \in Runs |-> IF r = 1 THEN "start" ELSE "idle"]

\* what the timeLimit of a request may be: omitted, or a number of ms
TimeLimits == {NULL, Some(1000), Some(3000)}

TwoTests == <<[input |-> "str", expectedOutput |-> <<"5">>],
              [input |-> "str", expectedOutput |-> <<"6">>]>>

\* one executeCode call for a submission of two test cases, with every time
\* limit
InitLimit ==
    /\ Idle /\ ExtIdle
    /\ call = NoCall /\ ret = NULL
    /\ platform = "posix"
    /\ timeLimit \in [Runs -> TimeLimits] /\ \A r \in Runs \ {1} : timeLimit[r] = NULL
    /\ lang \in [Runs -> {"cpp", "python"}] /\ \A r \in Runs \ {1} : lang[r] = "cpp"
    /\ testCases = [r \in Runs |-> TwoTests]
    /\ pc = [r \in Runs |-> IF r = 1 THEN "start" ELSE "idle"]

NullTest == <<[input |-> "null", expectedOutput |-> <<"5">>]>>

\* NumRuns concurrent executeCode calls: a C++ submission with one test
\* case, the others Python submissions whose test case has a null input
InitConc ==
    /\ Idle /\ ExtIdle
    /\ timeLimit = [r \in Runs |-> NULL]
    /\ call = NoCall /\ ret = NULL
    /\ platform = "posix"
    /\ lang = [r \in Runs |-> IF r = 1 THEN "cpp" ELSE "python"]
    /\ testCases = [r \in Runs |-> IF r = 1 THEN OneTest ELSE NullTest]
    /\ pc = [r \in Runs |-> "start"]

\* --------------------------------------------------------- helper operators
Set(f, r, v) == [f EXCEPT ![r] = v]

Bump(r, field) == Set(hist, r, [hist[r] EXCEPT ![field] = @ + 1])

Bump2(r, f1, f2) == Set(hist, r, [hist[r] EXCEPT ![f1] = @ + 1, ![f2] = @ + 1])

\* the catch block rethrows: the call will settle as a rejection
Throw(r, why) ==
    /\ outcome' = Set(outcome, r, Some([kind |-> "throw", error |-> why]))
    /\ pc' = Set(pc, r, "finally")

Return(r, value) ==
    /\ outcome' = Set(outcome, r, Some([kind |-> "return", value |-> value]))
    /\ pc' = Set(pc, r, "finally")

\* ------------------------------------------------- the process supervisor
\* spawn(command, args, {cwd, detached: true}) and the registration of the
\* handlers: the state of a fresh executeWithTimeout call.  The spawn fails
\* (an 'error' event will follow) when the command or the cwd is missing.
SpawnedSup(kind, timeout) ==
    [NoSup EXCEPT !.kind = kind, !.timeout = timeout,
                  !.promise = "pending", !.timer = "armed"]

SpawnedProc(old, ok) ==
    [NoProc EXCEPT !.child = IF ok THEN "alive" ELSE "failed",
                   !.pipe = ok,
                   !.leaked = old.leaked \/ old.child = "alive" \/ old.desc = "alive"]

\* process.kill(-child.pid, 'SIGKILL'): every live member of the group dies;
\* it throws when the group has no member
GroupAlive(p) == p.child = "alive" \/ (p.desc = "alive" /\ p.descInGroup)

KillChild(p) ==
    IF p.child = "alive"
    THEN [p EXCEPT !.child = "exited", !.code = NULL, !.signal = "SIGKILL",
                   !.pipe = FALSE]
    ELSE p

KillDesc(p) ==
    IF p.desc = "alive"
    THEN [p EXCEPT !.desc = "dead", !.descPipe = FALSE]
    ELSE p

KillGroup(p) ==
    IF p.desc = "alive" /\ p.descInGroup THEN KillDesc(KillChild(p)) ELSE KillChild(p)

\* taskkill /pid <pid> /T /F: the tree below a live pid; nothing when the
\* pid is gone
TaskKill(p) == IF p.child = "alive" THEN KillDesc(KillChild(p)) ELSE p

\* the kill of the tree fails: taskkill finds no process with the pid, the
\* process group has no member
TreeKillFails(p, plat) ==
    IF plat = "win32" THEN p.child # "alive" ELSE ~ GroupAlive(p)

\* the try block throws, so that the catch block runs: process.kill throws
\* ESRCH; spawn('taskkill', ...) returns a child process whatever taskkill
\* will do, and the exit code of taskkill is not read
TreeKillThrows(p, plat) == plat # "win32" /\ ~ GroupAlive(p)

killProcessTree(p, plat) ==
    IF p.child \in {"none", "failed"} THEN p          \* !child.pid
    ELSE IF TreeKillThrows(p, plat) THEN KillChild(p)  \* fallback child.kill
    ELSE IF plat = "win32" THEN TaskKill(p)
    ELSE KillGroup(p)

\* Math.round(endTime - startTime): a call whose deadline timer has run has
\* lasted for its timeout; the others are given the shortest time
ExecutionTime(s) == IF s.timer = "fired" THEN s.timeout ELSE 0

\* resolve(value): only the first settlement of a promise counts
Resolve(s, value) ==
    IF s.promise = "pending"
    THEN [s EXCEPT !.promise = "resolved", !.result = Some(value)]
    ELSE s

\* a timer callback that settles the promise at once and leaves the process
\* to itself
TimerFire_early(r) ==
    /\ sup[r].timer = "armed"
    /\ proc[r].child # "failed"
    /\ sup' = Set(sup, r,
         [Resolve(sup[r], [stdout |-> sup[r].stdout, stderr |-> sup[r].stderr,
                           exitCode |-> NULL, signal |-> "",
                           timedOut |-> TRUE, killed |-> TRUE,
                           stdinError |-> sup[r].stdinError,
                           executionTime |-> sup[r].timeout])
          EXCEPT !.timer = "fired", !.timedOut = TRUE, !.killed = TRUE])
    /\ UNCHANGED <<extVars, timeLimit, totalTime, call, ret, platform,
               now, randCount, fsDirs, fsFiles, lang, testCases, pc,
                   workspacePath, i, results, outcome, cleanup, proc, hist>>

\* a timer callback that kills but forgets to set the flags
TimerFire_noFlag(r) ==
    /\ sup[r].timer = "armed"
    /\ proc[r].child # "failed"
    /\ sup' = Set(sup, r, [sup[r] EXCEPT !.timer = "fired", !.kills = @ + 1])
    /\ proc' = Set(proc, r, killProcessTree(proc[r], platform))
    /\ UNCHANGED <<extVars, timeLimit, totalTime, call, ret, platform,
               now, randCount, fsDirs, fsFiles, lang, testCases, pc,
                   workspacePath, i, results, outcome, cleanup, hist>>

\* the setTimeout callback
TimerFire(r) ==
    /\ sup[r].timer = "armed"
    \* a spawn failure is reported on the next tick, before any timer runs
    /\ proc[r].child # "failed"
    /\ sup' = Set(sup, r, [sup[r] EXCEPT !.timer = "fired", !.timedOut = TRUE,
                                         !.killed = TRUE, !.kills = @ + 1])
    /\ proc' = Set(proc, r, killProcessTree(proc[r], platform))
    /\ UNCHANGED <<extVars, timeLimit, totalTime, call, ret, platform,
               now, randCount, fsDirs, fsFiles, lang, testCases, pc,
                   workspacePath, i, results, outcome, cleanup, hist>>

\* child.stdout.on('data')
StdoutData(r) ==
    /\ sup[r].kind # "none" /\ ~ sup[r].closeSeen
    /\ proc[r].child \in {"alive", "exited"}
    /\ sup[r].nOut < MaxChunks
    /\ \E d \in StdoutChunks :
         sup' = Set(sup, r, [sup[r] EXCEPT !.stdout = @ \o d, !.nOut = @ + 1])
    /\ UNCHANGED <<extVars, timeLimit, totalTime, call, ret, platform,
               now, randCount, fsDirs, fsFiles, lang, testCases, pc,
                   workspacePath, i, results, outcome, cleanup, proc, hist>>

\* child.stderr.on('data')
StderrData(r) ==
    /\ sup[r].kind # "none" /\ ~ sup[r].closeSeen
    /\ proc[r].child \in {"alive", "exited"}
    /\ sup[r].nErr < MaxChunks
    /\ \E d \in StderrChunks :
         sup' = Set(sup, r, [sup[r] EXCEPT !.stderr = @ \o d, !.nErr = @ + 1])
    /\ UNCHANGED <<extVars, timeLimit, totalTime, call, ret, platform,
               now, randCount, fsDirs, fsFiles, lang, testCases, pc,
                   workspacePath, i, results, outcome, cleanup, proc, hist>>

\* a stdin error handler that kills the process
StdinError_kills(r) ==
    /\ sup[r].kind = "run" /\ sup[r].promise = "pending"
    /\ ~ sup[r].stdinError /\ ~ sup[r].closeSeen
    /\ proc[r].child \in {"alive", "exited"}
    /\ sup' = Set(sup, r, [sup[r] EXCEPT !.stdinError = TRUE])
    /\ proc' = Set(proc, r, KillChild(proc[r]))
    /\ UNCHANGED <<extVars, timeLimit, totalTime, call, ret, platform, now, randCount,
                   fsDirs, fsFiles, lang, testCases, pc, workspacePath, i, results,
                   outcome, cleanup, hist>>

\* child.stdin.on('error'): the write of the input failed, because the
\* child closed its stdin or ended before it had read all of it.  The
\* handler is registered by a call with a non-empty string input, after
\* the write (a write that threw registers none).
StdinError(r) ==
    /\ sup[r].kind = "run" /\ sup[r].promise = "pending"
    /\ ~ sup[r].stdinError /\ ~ sup[r].closeSeen
    /\ proc[r].child \in {"alive", "exited"}
    /\ sup' = Set(sup, r, [sup[r] EXCEPT !.stdinError = TRUE])
    /\ UNCHANGED <<extVars, timeLimit, totalTime, call, ret, platform, now, randCount,
                   fsDirs, fsFiles, lang, testCases, pc, workspacePath, i, results,
                   outcome, cleanup, proc, hist>>

\* the 'close' event is emitted once the process has ended and nobody holds
\* the write ends of its stdout/stderr pipes any more
CloseReady(r) ==
    /\ sup[r].kind # "none" /\ ~ sup[r].closeSeen
    /\ \/ proc[r].child = "exited" /\ ~ proc[r].pipe /\ ~ proc[r].descPipe
       \/ proc[r].child = "failed" /\ sup[r].errorSeen

\* a close handler without clearTimeout(timeoutId)
CloseEvent_keepTimer(r) ==
    /\ CloseReady(r)
    /\ sup' = Set(sup, r,
         [Resolve(sup[r], [stdout |-> sup[r].stdout, stderr |-> sup[r].stderr,
                           exitCode |-> proc[r].code, signal |-> proc[r].signal,
                           timedOut |-> sup[r].timedOut, killed |-> sup[r].killed,
                           stdinError |-> sup[r].stdinError,
                           executionTime |-> ExecutionTime(sup[r])])
          EXCEPT !.closeSeen = TRUE])
    /\ hist' = Set(hist, r, [hist[r] EXCEPT !.firedAtResolve =
                   IF sup[r].promise = "pending" THEN sup[r].timer = "fired" ELSE @])
    /\ UNCHANGED <<extVars, timeLimit, totalTime, call, ret, platform,
               now, randCount, fsDirs, fsFiles, lang, testCases, pc,
                   workspacePath, i, results, outcome, cleanup, proc>>

\* child.on('close', (code, signal) => ...)
CloseEvent(r) ==
    /\ CloseReady(r)
    /\ sup' = Set(sup, r,
         [Resolve(sup[r], [stdout |-> sup[r].stdout, stderr |-> sup[r].stderr,
                           exitCode |-> proc[r].code, signal |-> proc[r].signal,
                           timedOut |-> sup[r].timedOut, killed |-> sup[r].killed,
                           stdinError |-> sup[r].stdinError,
                           executionTime |-> ExecutionTime(sup[r])])
          EXCEPT !.closeSeen = TRUE,
                 !.timer = IF @ = "armed" THEN "cleared" ELSE @])
    /\ hist' = Set(hist, r, [hist[r] EXCEPT !.firedAtResolve =
                   IF sup[r].promise = "pending" THEN sup[r].timer = "fired" ELSE @])
    /\ UNCHANGED <<extVars, timeLimit, totalTime, call, ret, platform,
               now, randCount, fsDirs, fsFiles, lang, testCases, pc,
                   workspacePath, i, results, outcome, cleanup, proc>>

\* `Process spawn error: ${error.message}`
T_spawnError == <<"P", "r", "o", "c", "e", "s", "s", " ", "s", "p", "a", "w",
                  "n", " ", "e", "r", "r", "o", "r", ":", " ", "E", "N", "O",
                  "E", "N", "T">>

\* an error handler that reports a clean exit
ErrorEvent_cleanExit(r) ==
    /\ sup[r].kind # "none" /\ ~ sup[r].errorSeen
    /\ proc[r].child = "failed"
    /\ sup' = Set(sup, r,
         [Resolve(sup[r], [stdout |-> <<>>, stderr |-> <<>>,
                           exitCode |-> Some(0), signal |-> "",
                           timedOut |-> FALSE, killed |-> FALSE,
                           stdinError |-> FALSE,
                           executionTime |-> ExecutionTime(sup[r])])
          EXCEPT !.errorSeen = TRUE,
                 !.timer = IF @ = "armed" THEN "cleared" ELSE @])
    /\ hist' = Set(hist, r, [hist[r] EXCEPT !.firedAtResolve =
                   IF sup[r].promise = "pending" THEN sup[r].timer = "fired" ELSE @])
    /\ UNCHANGED <<extVars, timeLimit, totalTime, call, ret, platform,
               now, randCount, fsDirs, fsFiles, lang,
                   testCases, pc, workspacePath, i, results, outcome, cleanup, proc>>

\* child.on('error', ...): the command could not be spawned
ErrorEvent(r) ==
    /\ sup[r].kind # "none" /\ ~ sup[r].errorSeen
    /\ proc[r].child = "failed"
    /\ sup' = Set(sup, r,
         [Resolve(sup[r], [stdout |-> <<>>, stderr |-> T_spawnError,
                           exitCode |-> Some(0 - 1), signal |-> "",
                           timedOut |-> FALSE, killed |-> FALSE,
                           stdinError |-> FALSE,
                           executionTime |-> ExecutionTime(sup[r])])
          EXCEPT !.errorSeen = TRUE,
                 !.timer = IF @ = "armed" THEN "cleared" ELSE @])
    /\ hist' = Set(hist, r, [hist[r] EXCEPT !.firedAtResolve =
                   IF sup[r].promise = "pending" THEN sup[r].timer = "fired" ELSE @])
    /\ UNCHANGED <<extVars, timeLimit, totalTime, call, ret, platform,
               now, randCount, fsDirs, fsFiles, lang, testCases, pc,
                   workspacePath, i, results, outcome, cleanup, proc>>

\* ------------------------------------------- the processes (environment)
\* A process tree is followed for as long as the supervisor listens to it:
\* after the 'close' event nothing it does reaches the code any more.
Watched(r) == sup[r].kind # "none" /\ ~ sup[r].closeSeen

EnvUnchanged ==
    UNCHANGED <<extVars, timeLimit, totalTime, call, ret, platform,
            now, randCount, fsDirs, lang, testCases, pc,
                workspacePath, i, results, outcome, cleanup, sup, hist>>

\* the process ends by itself: exit(code), or death by a signal of its own
\* (code null).  The compiler leaves the artifact behind or not.
ChildExit(r) ==
    /\ Watched(r)
    /\ proc[r].child = "alive"
    /\ \E c \in {Some(x) : x \in ExitCodes} \cup {NULL}, built \in BOOLEAN :
         /\ proc' = Set(proc, r, [proc[r] EXCEPT !.child = "exited", !.code = c,
                        !.signal = IF c = NULL THEN "SIGSEGV" ELSE "",
                        !.pipe = FALSE])
         /\ built => sup[r].kind = "compile" /\ workspacePath[r] \in fsDirs
         /\ fsFiles' = IF built
                       THEN fsFiles \cup {<<workspacePath[r], "executable">>}
                       ELSE fsFiles
    /\ EnvUnchanged

\* the submitted program, running in the workspace (its cwd), creates a file
\* there
ChildWritesFile(r) ==
    /\ Watched(r)
    /\ proc[r].child = "alive" /\ sup[r].kind = "run"
    /\ workspacePath[r] \in fsDirs
    /\ <<workspacePath[r], "scratch">> \notin fsFiles
    /\ fsFiles' = fsFiles \cup {<<workspacePath[r], "scratch">>}
    /\ UNCHANGED proc
    /\ EnvUnchanged

\* fork(): the submitted program starts a descendant, which inherits the
\* process group and the stdout/stderr pipes
ChildFork(r) ==
    /\ Watched(r)
    /\ proc[r].child = "alive" /\ proc[r].desc = "none"
    /\ sup[r].kind = "run"
    /\ proc' = Set(proc, r, [proc[r] EXCEPT !.desc = "alive", !.descInGroup = TRUE,
                                            !.descPipe = TRUE])
    /\ UNCHANGED fsFiles
    /\ EnvUnchanged

\* setsid() / setpgid(): the descendant leaves the process group
DescSetsid(r) ==
    /\ Watched(r)
    /\ proc[r].desc = "alive" /\ proc[r].descInGroup
    /\ proc' = Set(proc, r, [proc[r] EXCEPT !.descInGroup = FALSE])
    /\ UNCHANGED fsFiles
    /\ EnvUnchanged

\* the descendant closes its copies of stdout and stderr
DescClosePipes(r) ==
    /\ Watched(r)
    /\ proc[r].desc = "alive" /\ proc[r].descPipe
    /\ proc' = Set(proc, r, [proc[r] EXCEPT !.descPipe = FALSE])
    /\ UNCHANGED fsFiles
    /\ EnvUnchanged

DescExit(r) ==
    /\ Watched(r)
    /\ proc[r].desc = "alive"
    /\ proc' = Set(proc, r, [proc[r] EXCEPT !.desc = "dead", !.descPipe = FALSE])
    /\ UNCHANGED fsFiles
    /\ EnvUnchanged

\* ------------------------------------------------ the workspace manager
\* randomBytes(8): 64 bits from the system's generator, a value that no
\* earlier draw has produced
randomBytes == randCount + 1

\* a name made of the timestamp alone
WorkspaceName_timestampOnly(timestamp, uniqueId) == <<timestamp, 0>>

\* `ws_${timestamp}_${uniqueId}`
WorkspaceName(timestamp, uniqueId) == <<timestamp, uniqueId>>

FilesOf(ws) == {f \in fsFiles : f[1] = ws}

\* fileExists(getExecutablePath(workspacePath, executable))
fileExists(ws, file) == <<ws, file>> \in fsFiles

\* --------------------------------------------------------- executeCode
OrchUnchanged ==
    UNCHANGED <<extVars, timeLimit, call, ret, platform, now, lang, testCases>>

\* a language check placed after the creation of the workspace
GetLanguage_afterWorkspace(r) ==
    /\ pc[r] = "start"
    /\ IF getLanguage(lang[r]) = NULL
       THEN /\ Throw(r, "Language not found")
            /\ fsDirs' = fsDirs \cup {WorkspaceName(now, randomBytes)}
            /\ workspacePath' = Set(workspacePath, r, WorkspaceName(now, randomBytes))
            /\ randCount' = randCount + 1
            /\ hist' = Bump(r, "created")
       ELSE /\ pc' = Set(pc, r, "createWorkspace")
            /\ UNCHANGED <<outcome, fsDirs, workspacePath, randCount, hist>>
    /\ UNCHANGED <<fsFiles, i, results, cleanup, sup, proc>>
    /\ UNCHANGED totalTime
    /\ OrchUnchanged

\* const langConfig = getLanguage(languageId); if (!langConfig) throw
GetLanguage(r) ==
    /\ pc[r] = "start"
    /\ IF getLanguage(lang[r]) = NULL
       THEN Throw(r, "Language not found")
       ELSE /\ pc' = Set(pc, r, "createWorkspace")
            /\ UNCHANGED outcome
    /\ UNCHANGED <<randCount, fsDirs, fsFiles, workspacePath, i, results, cleanup,
                   sup, proc, hist>>
    /\ UNCHANGED totalTime
    /\ OrchUnchanged

\* workspacePath = await createWorkspace()
CreateWorkspace(r) ==
    /\ pc[r] = "createWorkspace"
    /\ \E timestamp \in now..MaxClock :        \* Date.now() never goes back
         LET path == WorkspaceName(timestamp, randomBytes) IN
         /\ now' = timestamp
         /\ randCount' = randCount + 1
         /\ fsDirs' = fsDirs \cup {path}        \* mkdir {recursive: true}
         /\ workspacePath' = Set(workspacePath, r, path)
    /\ hist' = Bump(r, "created")
    /\ pc' = Set(pc, r, "writeSourceFile")
    /\ UNCHANGED <<fsFiles, i, results, outcome, cleanup, sup, proc>>
    /\ UNCHANGED <<extVars, timeLimit, totalTime, call, ret, platform, lang, testCases>>

\* fs.mkdir rejects: workspacePath stays null
CreateWorkspaceFails(r) ==
    /\ pc[r] = "createWorkspace"
    /\ Throw(r, "mkdir")
    /\ UNCHANGED <<randCount, fsDirs, fsFiles, workspacePath, i, results, cleanup,
                   sup, proc, hist>>
    /\ UNCHANGED totalTime
    /\ OrchUnchanged

\* await writeSourceFile(workspacePath, sourceFileName, code)
WriteSourceFile(r) ==
    /\ pc[r] = "writeSourceFile"
    /\ workspacePath[r] \in fsDirs
    /\ fsFiles' = fsFiles \cup {<<workspacePath[r], "source">>}
    /\ pc' = Set(pc, r, "compile")
    /\ UNCHANGED <<randCount, fsDirs, workspacePath, i, results, outcome, cleanup,
                   sup, proc, hist>>
    /\ UNCHANGED totalTime
    /\ OrchUnchanged

\* fs.writeFile rejects
WriteSourceFileFails(r) ==
    /\ pc[r] = "writeSourceFile"
    /\ Throw(r, "writeFile")
    /\ UNCHANGED <<randCount, fsDirs, fsFiles, workspacePath, i, results, cleanup,
                   sup, proc, hist>>
    /\ UNCHANGED totalTime
    /\ OrchUnchanged

\* compile(): nothing to do for an interpreted language; otherwise
\* executeWithTimeout(compiler, args, {cwd, timeout: 10000})
Compile(r) ==
    /\ pc[r] = "compile"
    /\ IF ~ LANGUAGES[lang[r]].needsCompilation
       THEN /\ pc' = Set(pc, r, "loop")
            /\ UNCHANGED <<sup, proc, hist>>
       ELSE /\ \E ok \in BOOLEAN :
                 /\ ok => workspacePath[r] \in fsDirs
                 /\ proc' = Set(proc, r, SpawnedProc(proc[r], ok))
            /\ sup' = Set(sup, r, SpawnedSup("compile", COMPILE_TIMEOUT))
            /\ hist' = Bump(r, "compileSpawns")
            /\ pc' = Set(pc, r, "compileWait")
    /\ UNCHANGED <<randCount, fsDirs, fsFiles, workspacePath, i, results, outcome,
                   cleanup>>
    /\ UNCHANGED totalTime
    /\ OrchUnchanged

\* the await of an executeWithTimeout call resumes once its promise resolved
Awaited(r) == sup[r].promise = "resolved"

\* After the await the call's closure is dead once 'close' has been handled
\* (timer cleared, no handler left to run): the records are dropped, only
\* the fact that a process of the tree is still alive is kept.
Survivors(p) == p.leaked \/ p.child = "alive" \/ p.desc = "alive"

SupAfterAwait(r) == IF sup[r].closeSeen THEN NoSup ELSE sup[r]

ProcAfterAwait(r) ==
    IF sup[r].closeSeen THEN [NoProc EXCEPT !.leaked = Survivors(proc[r])]
    ELSE proc[r]

\* a compile() that trusts the exit code and does not look for the artifact
CompileResult_exitOnly(result, langConfig, exists) ==
    IF result.exitCode # Some(0)
    THEN [success |-> FALSE, message |-> "Compilation failed",
          stderr |-> result.stderr]
    ELSE [success |-> TRUE, message |-> "Compilation successful",
          stderr |-> result.stderr]

\* a compile() that does not look at the compiler's stderr
CompileResult_noPatterns(result, langConfig, exists) ==
    IF result.exitCode # Some(0)
    THEN [success |-> FALSE, message |-> "Compilation failed",
          stderr |-> result.stderr]
    ELSE IF langConfig.executable # "" /\ ~ exists
    THEN [success |-> FALSE, message |-> "Executable not found after compilation",
          stderr |-> <<"E", "x", "p", "e", "c", "t", "e", "d">>]
    ELSE [success |-> TRUE, message |-> "Compilation successful",
          stderr |-> result.stderr]

\* the part of compile() after the await
CompileResult(result, langConfig, exists) ==
    LET hasError == \E pattern \in langConfig.errorPatterns :
                        ContainsI(result.stderr, pattern)
    IN  IF (result.exitCode # Some(0) \/ result.stderr # <<>>)
           /\ (hasError \/ result.exitCode # Some(0))
        THEN [success |-> FALSE, message |-> "Compilation failed",
              stderr |-> result.stderr]
        ELSE IF langConfig.executable # "" /\ ~ exists
        THEN [success |-> FALSE, message |-> "Executable not found after compilation",
              stderr |-> <<"E", "x", "p", "e", "c", "t", "e", "d">>]
        ELSE [success |-> TRUE, message |-> "Compilation successful",
              stderr |-> result.stderr]

createCompilationErrorVerdict(compileError) ==
    [verdict |-> VERDICTS.CE, message |-> "Compilation Error", stderr |-> compileError,
     actualOutput |-> <<>>, expectedOutput |-> <<>>]

\* the object returned when compilation failed
CompilationFailure(tests, compileResult) ==
    [success |-> FALSE,
     compilationError |-> Some(createCompilationErrorVerdict(compileResult.stderr)),
     results |-> <<>>,
     summary |-> [overallVerdict |-> VERDICTS.CE, totalTests |-> Len(tests),
                  passed |-> 0, failed |-> Len(tests), totalTime |-> 0]]

\* a compile failure that does not return: the loop runs all the same
CompileDone_noShortCircuit(r) ==
    /\ pc[r] = "compileWait"
    /\ Awaited(r)
    /\ LET compileResult ==
             CompileResult(sup[r].result[1], LANGUAGES[lang[r]],
                           fileExists(workspacePath[r], "executable"))
       IN  hist' = Set(hist, r, [hist[r] EXCEPT !.compiled =
                          IF compileResult.success THEN "ok" ELSE "failed"])
    /\ pc' = Set(pc, r, "loop")
    /\ sup' = Set(sup, r, SupAfterAwait(r))
    /\ proc' = Set(proc, r, ProcAfterAwait(r))
    /\ UNCHANGED <<randCount, fsDirs, fsFiles, workspacePath, i, results, cleanup,
                   outcome>>
    /\ UNCHANGED totalTime
    /\ OrchUnchanged

\* if (!compileResult.success) return {success: false, ...}
CompileDone(r) ==
    /\ pc[r] = "compileWait"
    /\ Awaited(r)
    /\ LET compileResult ==
             CompileResult(sup[r].result[1], LANGUAGES[lang[r]],
                           fileExists(workspacePath[r], "executable"))
       IN  /\ IF ~ compileResult.success
              THEN Return(r, CompilationFailure(testCases[r], compileResult))
              ELSE /\ pc' = Set(pc, r, "loop")
                   /\ UNCHANGED outcome
           /\ hist' = Set(hist, r, [hist[r] EXCEPT !.compiled =
                          IF compileResult.success THEN "ok" ELSE "failed"])
    /\ sup' = Set(sup, r, SupAfterAwait(r))
    /\ proc' = Set(proc, r, ProcAfterAwait(r))
    /\ UNCHANGED <<randCount, fsDirs, fsFiles, workspacePath, i, results, cleanup>>
    /\ UNCHANGED totalTime
    /\ OrchUnchanged

\* runProgram(): what it hands back from the supervisor's result
runProgramResult(result) ==
    [stdout |-> result.stdout, stderr |-> result.stderr,
     exitCode |-> result.exitCode, timedOut |-> result.timedOut,
     killed |-> result.killed, executionTime |-> result.executionTime]

\* !firstFailure: null and 0 are falsy
Falsy(v) == v = NULL \/ v = Some(0)

\* a scan that keeps the last failure it meets
FirstFailure_last(firstFailure, result) ==
    IF result.verdict # VERDICTS.AC THEN Some(result.testCase) ELSE firstFailure

\* if (!firstFailure && result.verdict !== VERDICTS.AC) firstFailure = ...
FirstFailure(firstFailure, result) ==
    IF Falsy(firstFailure) /\ result.verdict # VERDICTS.AC
    THEN Some(result.testCase)
    ELSE firstFailure

\* results.forEach(...): the counts and the first failure after the
\* results from position k on have been visited
RECURSIVE SummaryScan(_, _, _, _)
SummaryScan(res, k, verdictCounts, firstFailure) ==
    IF k > Len(res)
    THEN [verdictCounts |-> verdictCounts, firstFailure |-> firstFailure]
    ELSE SummaryScan(res, k + 1,
                     IF res[k].verdict \in DOMAIN verdictCounts
                     THEN [verdictCounts EXCEPT ![res[k].verdict] = @ + 1]
                     ELSE verdictCounts,
                     FirstFailure(firstFailure, res[k]))

\* an overall verdict that looks for RE before TLE
OverallVerdict_reFirst(verdictCounts, passed, total) ==
    IF passed = total THEN VERDICTS.AC
    ELSE IF verdictCounts[VERDICTS.RE] > 0 THEN VERDICTS.RE
    ELSE IF verdictCounts[VERDICTS.TLE] > 0 THEN VERDICTS.TLE
    ELSE VERDICTS.WA

\* the if-chain that sets overallVerdict
OverallVerdict(verdictCounts, passed, total) ==
    IF passed = total THEN VERDICTS.AC
    ELSE IF verdictCounts[VERDICTS.TLE] > 0 THEN VERDICTS.TLE
    ELSE IF verdictCounts[VERDICTS.RE] > 0 THEN VERDICTS.RE
    ELSE VERDICTS.WA

\* Math.round(a / b) for a >= 0 and b > 0
RoundDiv(a, b) == (2 * a + b) \div (2 * b)

\* a summary that reports the average time as the total
calculateSummary_avgAsTotal(res, time) ==
    LET zero == [v \in {VERDICTS.AC, VERDICTS.WA, VERDICTS.TLE, VERDICTS.RE} |-> 0]
        scan == SummaryScan(res, 1, zero, NULL)
        passed == scan.verdictCounts[VERDICTS.AC]
        total == Len(res)
        avgTime == IF total > 0 THEN RoundDiv(time, total) ELSE 0
    IN  [overallVerdict |-> OverallVerdict(scan.verdictCounts, passed, total),
         totalTests |-> total,
         passed |-> passed,
         failed |-> total - passed,
         firstFailure |-> scan.firstFailure,
         verdictBreakdown |-> scan.verdictCounts,
         totalTime |-> avgTime,
         avgTime |-> avgTime]

calculateSummary(res, time) ==
    LET zero == [v \in {VERDICTS.AC, VERDICTS.WA, VERDICTS.TLE, VERDICTS.RE} |-> 0]
        scan == SummaryScan(res, 1, zero, NULL)
        passed == scan.verdictCounts[VERDICTS.AC]
        total == Len(res)
    IN  [overallVerdict |-> OverallVerdict(scan.verdictCounts, passed, total),
         totalTests |-> total,
         passed |-> passed,
         failed |-> total - passed,
         firstFailure |-> scan.firstFailure,
         verdictBreakdown |-> scan.verdictCounts,
         totalTime |-> time,
         avgTime |-> IF total > 0 THEN RoundDiv(time, total) ELSE 0]

\* a time limit that is the default whatever the request says
TimeLimitParameter_alwaysDefault(limit) == DEFAULT_TIME_LIMIT

\* the parameter timeLimit = 2000 of executeCode: the default stands in for
\* an argument that is undefined
TimeLimitParameter(limit) == IF limit = NULL THEN DEFAULT_TIME_LIMIT ELSE limit[1]

\* a loop that stops at the first test case that is not accepted
LoopContinues_stopAtFailure(n, res, tests) ==
    n < Len(tests) /\ \A k \in 1..Len(res) : res[k].verdict = VERDICTS.AC

\* for (let i = 0; i < testCases.length; i++)
LoopContinues(n, res, tests) == n < Len(tests)

\* the head of the for loop: the next runProgram call, or the summary and
\* the normal return after the last test case
LoopStep(r) ==
    /\ pc[r] = "loop"
    /\ IF LoopContinues(i[r], results[r], testCases[r])
       THEN LET testCase == testCases[r][i[r] + 1] IN
            IF testCase.input = "null"
            THEN \* input.length throws in runProgram, nothing is spawned
                 /\ Throw(r, "TypeError")
                 /\ UNCHANGED <<sup, proc, hist>>
            ELSE /\ \E ok \in BOOLEAN :
                      /\ ok => workspacePath[r] \in fsDirs
                      /\ proc' = Set(proc, r, SpawnedProc(proc[r], ok))
                 /\ hist' = Bump(r, "runSpawns")
                 /\ IF testCase.input = "num"
                    THEN \* child.stdin.write(input) throws inside the promise
                         \* executor, after the handlers were registered
                         /\ sup' = Set(sup, r,
                               [SpawnedSup("run", TimeLimitParameter(timeLimit[r]))
                                   EXCEPT !.promise = "rejected"])
                         /\ Throw(r, "ERR_INVALID_ARG_TYPE")
                    ELSE /\ sup' = Set(sup, r, SpawnedSup("run", TimeLimitParameter(timeLimit[r])))
                         /\ pc' = Set(pc, r, "runWait")
                         /\ UNCHANGED outcome
       ELSE /\ Return(r, [success |-> TRUE, results |-> results[r],
                          compilationError |-> NULL,
                          summary |-> calculateSummary(results[r], totalTime[r])])
            /\ UNCHANGED <<sup, proc, hist>>
    /\ UNCHANGED <<randCount, fsDirs, fsFiles, workspacePath, i, results, cleanup>>
    /\ UNCHANGED totalTime
    /\ OrchUnchanged

\* after the await of runProgram: determineVerdict and results.push
RunDone(r) ==
    /\ pc[r] = "runWait"
    /\ Awaited(r)
    /\ LET testCase == testCases[r][i[r] + 1]
           executionResult == runProgramResult(sup[r].result[1])
           verdict == determineVerdict(executionResult, testCase.expectedOutput)
       IN  \* totalTime += executionResult.executionTime || 0
           /\ totalTime' = Set(totalTime, r, totalTime[r] + executionResult.executionTime)
           /\ results' = Set(results, r, Append(results[r],
               \* of the pushed object: testCase, verdict, message,
               \* expectedOutput, executionTime and diff (verdict.diff || null)
               [testCase |-> i[r] + 1,
                verdict |-> verdict.verdict,
                message |-> verdict.message,
                expectedOutput |-> verdict.expectedOutput,
                executionTime |-> executionResult.executionTime,
                diff |-> IF "diff" \in DOMAIN verdict
                         THEN Some(verdict["diff"]) ELSE NULL]))
    /\ i' = Set(i, r, i[r] + 1)
    /\ pc' = Set(pc, r, "loop")
    /\ sup' = Set(sup, r, SupAfterAwait(r))
    /\ proc' = Set(proc, r, ProcAfterAwait(r))
    /\ UNCHANGED <<randCount, fsDirs, fsFiles, workspacePath, outcome, cleanup,
                   hist>>
    /\ OrchUnchanged

\* a cleanup placed at the end of the try block instead of in finally
NeedsCleanup_returnOnly(r) ==
    workspacePath[r] # NULL /\ outcome[r] # NULL /\ outcome[r][1].kind = "return"

\* finally { if (workspacePath) await cleanupWorkspace(workspacePath) }
NeedsCleanup(r) == workspacePath[r] # NULL

Finally(r) ==
    /\ pc[r] = "finally"
    /\ IF NeedsCleanup(r)
       THEN /\ cleanup' = Set(cleanup, r, "delay")
            /\ hist' = Bump(r, "cleanupCalls")
            /\ pc' = Set(pc, r, "awaitCleanup")
       ELSE /\ pc' = Set(pc, r, "settled")
            /\ UNCHANGED <<cleanup, hist>>
    /\ UNCHANGED <<randCount, fsDirs, fsFiles, workspacePath, i, results, outcome,
                   sup, proc>>
    /\ UNCHANGED totalTime
    /\ OrchUnchanged

\* fs.rm(workspacePath, {recursive: true, force: true}) succeeds
Removed(ws) ==
    /\ fsDirs' = fsDirs \ {ws}
    /\ fsFiles' = fsFiles \ FilesOf(ws)

\* cleanupWorkspace after its first delay: the first fs.rm
CleanupRm(r) ==
    /\ cleanup[r] = "delay"
    /\ Removed(workspacePath[r])
    /\ cleanup' = Set(cleanup, r, "resolved")
    /\ hist' = IF workspacePath[r] \in fsDirs THEN Bump2(r, "rmCalls", "deleted")
               ELSE Bump(r, "rmCalls")
    /\ UNCHANGED <<randCount, pc, workspacePath, i, results, outcome, sup, proc>>
    /\ UNCHANGED totalTime
    /\ OrchUnchanged

\* a first failure that is logged and not retried
CleanupRmFails_noRetry(r) ==
    /\ cleanup[r] = "delay"
    /\ workspacePath[r] \in fsDirs
    /\ cleanup' = Set(cleanup, r, "resolved")
    /\ hist' = Bump2(r, "rmCalls", "rmFails")
    /\ UNCHANGED <<randCount, fsDirs, fsFiles, pc, workspacePath, i, results, outcome,
                   sup, proc>>
    /\ UNCHANGED totalTime
    /\ OrchUnchanged

\* the first fs.rm rejects (a directory that does not exist cannot make a
\* forced rm fail): log, then wait 500 ms
CleanupRmFails(r) ==
    /\ cleanup[r] = "delay"
    /\ workspacePath[r] \in fsDirs
    /\ cleanup' = Set(cleanup, r, "retry")
    /\ hist' = Bump2(r, "rmCalls", "rmFails")
    /\ UNCHANGED <<randCount, fsDirs, fsFiles, pc, workspacePath, i, results, outcome,
                   sup, proc>>
    /\ UNCHANGED totalTime
    /\ OrchUnchanged

\* the retry
CleanupRetry(r) ==
    /\ cleanup[r] = "retry"
    /\ Removed(workspacePath[r])
    /\ cleanup' = Set(cleanup, r, "resolved")
    /\ hist' = IF workspacePath[r] \in fsDirs THEN Bump2(r, "rmCalls", "deleted")
               ELSE Bump(r, "rmCalls")
    /\ UNCHANGED <<randCount, pc, workspacePath, i, results, outcome, sup, proc>>
    /\ UNCHANGED totalTime
    /\ OrchUnchanged

\* a retry failure that is rethrown: it replaces what executeCode was about
\* to return or throw
CleanupRetryFails_rethrow(r) ==
    /\ cleanup[r] = "retry"
    /\ workspacePath[r] \in fsDirs
    /\ cleanup' = Set(cleanup, r, "resolved")
    /\ hist' = Bump2(r, "rmCalls", "rmFails")
    /\ outcome' = Set(outcome, r, Some([kind |-> "throw", error |-> "rm"]))
    /\ UNCHANGED <<randCount, fsDirs, fsFiles, pc, workspacePath, i, results,
                   sup, proc>>
    /\ UNCHANGED totalTime
    /\ OrchUnchanged

\* the retry rejects too: logged, the promise still resolves
CleanupRetryFails(r) ==
    /\ cleanup[r] = "retry"
    /\ workspacePath[r] \in fsDirs
    /\ cleanup' = Set(cleanup, r, "resolved")
    /\ hist' = Bump2(r, "rmCalls", "rmFails")
    /\ UNCHANGED <<randCount, fsDirs, fsFiles, pc, workspacePath, i, results, outcome,
                   sup, proc>>
    /\ UNCHANGED totalTime
    /\ OrchUnchanged

\* the await in the finally block resumes once cleanupWorkspace resolved
CleanupAwaited(r) == cleanup[r] = "resolved"

\* executeCode settles: the returned value or the rethrown error reaches the
\* caller
Settle(r) ==
    /\ pc[r] = "awaitCleanup"
    /\ CleanupAwaited(r)
    /\ pc' = Set(pc, r, "settled")
    /\ UNCHANGED <<randCount, fsDirs, fsFiles, workspacePath, i, results, outcome,
                   cleanup, sup, proc, hist>>
    /\ UNCHANGED totalTime
    /\ OrchUnchanged

\* ------------------------------------------------ the stale-workspace sweep
\* const staleAgeMs = 60 * 60 * 1000
STALE_AGE_MS == 3600000

HexChars == {"a", "b", "c", "d", "e", "f",
             "0", "1", "2", "3", "4", "5", "6", "7", "8", "9"}

IsDigit(c) == \E d \in 1..10 : Digits[d] = c

\* the position after the maximal run of digits that starts at position k
RECURSIVE DigitRunEnd(_, _)
DigitRunEnd(name, k) ==
    IF k <= Len(name) /\ IsDigit(name[k]) THEN DigitRunEnd(name, k + 1) ELSE k

\* WORKSPACE_PATTERN = /^ws_\d+_[a-f0-9]+$/
WORKSPACE_PATTERN(name) ==
    /\ Len(name) >= 3 /\ SubSeq(name, 1, 3) = <<"w", "s", "_">>
    /\ LET d == DigitRunEnd(name, 4) IN
       /\ d > 4
       /\ d <= Len(name) /\ name[d] = "_"
       /\ d + 1 <= Len(name)
       /\ \A k \in (d + 1)..Len(name) : name[k] \in HexChars

\* entry.name.match(/^ws_(\d+)_/): the digits, or null
TimestampMatch(name) ==
    IF /\ Len(name) >= 3 /\ SubSeq(name, 1, 3) = <<"w", "s", "_">>
       /\ DigitRunEnd(name, 4) > 4
       /\ DigitRunEnd(name, 4) <= Len(name) /\ name[DigitRunEnd(name, 4)] = "_"
    THEN Some(SubSeq(name, 4, DigitRunEnd(name, 4) - 1))
    ELSE NULL

\* parseInt(digits, 10)
RECURSIVE ParseInt(_)
ParseInt(digits) ==
    IF digits = <<>> THEN 0
    ELSE 10 * ParseInt(SubSeq(digits, 1, Len(digits) - 1))
         + ((CHOOSE d \in 1..10 : Digits[d] = digits[Len(digits)]) - 1)

\* a threshold that is already reached at the TTL
IsStale_atTTL(timestamp, nowMs) == nowMs - timestamp >= STALE_AGE_MS

\* if (age > staleAgeMs)
IsStale(timestamp, nowMs) == nowMs - timestamp > STALE_AGE_MS

\* the for loop over the entries: root is what the workspace root holds,
\* rmFails the names whose fs.rm rejects
RECURSIVE SweepScan(_, _, _, _, _, _)
SweepScan(entries, k, nowMs, rmFails, root, cleanedCount) ==
    IF k > Len(entries) THEN [root |-> root, cleanedCount |-> cleanedCount]
    ELSE LET entry == entries[k]
             skip == SweepScan(entries, k + 1, nowMs, rmFails, root, cleanedCount)
         IN  IF ~ entry.isDirectory \/ ~ WORKSPACE_PATTERN(entry.name) THEN skip
             ELSE IF TimestampMatch(entry.name) = NULL THEN skip
             ELSE IF ~ IsStale(ParseInt(TimestampMatch(entry.name)[1]), nowMs)
             THEN skip
             ELSE IF entry.name \in rmFails THEN skip     \* the inner catch
             ELSE SweepScan(entries, k + 1, nowMs, rmFails,
                            root \ {entry}, cleanedCount + 1)

\* cleanupStaleWorkspaces(): entries is what readdir returns, in its order
cleanupStaleWorkspaces(entries, nowMs, rmFails, readdirFails) ==
    LET root == {entries[k] : k \in 1..Len(entries)} IN
    IF readdirFails THEN [root |-> root, cleanedCount |-> 0]    \* the outer catch
    ELSE SweepScan(entries, 1, nowMs, rmFails, root, 0)

\* ------------------------------------------- direct calls of pure functions
\* the characters of the texts that are normalized: a letter in both cases,
\* blanks, line ends, a form feed, a line separator
TextChars == {"a", "A", SP, TAB, CR, LF, FF, LS}

Texts == UNION {[1..n -> TextChars] : n \in 0..MaxLen}

NormalizeCalls == [fn : {"strictNormalizeOutput"}, output : Texts]

\* pairs of shorter texts to compare
ShortTexts == UNION {[1..n -> {"a", "A", SP, LF}] : n \in 0..(MaxLen - 1)}

CompareCalls == [fn : {"compareOutputs"}, actual : ShortTexts, expected : ShortTexts]

\* texts of lines of digits
DiffTexts == UNION {[1..n -> {"5", "6", LF}] : n \in 0..(MaxLen - 1)}

DiffCalls == [fn : {"generateDiff"}, expected : DiffTexts, actual : DiffTexts]

\* what a process can have written to stdout when the supervisor resolves
ExecStdouts == {<<>>, <<"5">>, <<"5", LF>>, <<"5", SP, CR, LF>>, <<"6">>, <<"A">>}

T_capitalError == <<"E", "r", "r", "o", "r">>
T_warning == <<"w", "a", "r", "n", "i", "n", "g", ":", " ", "x">>

\* and to stderr: nothing, blanks, a fault message, a warning
ExecStderrs == {<<>>, <<SP>>, T_capitalError, PatternText.coreDumped, T_warning}

\* exit codes the supervisor reports: null after a signal, an exit status,
\* -1 after a spawn error
ExecExitCodes == {NULL, Some(0), Some(1), Some(0 - 1), Some(139)}

\* the results runProgram can hand to determineVerdict
ExecutionResults ==
    [stdout : ExecStdouts, stderr : ExecStderrs, exitCode : ExecExitCodes,
     timedOut : BOOLEAN, killed : BOOLEAN]

VerdictCalls ==
    [fn : {"determineVerdict"},
     executionResult : {e \in ExecutionResults : e.killed = e.timedOut},
     expectedOutput : ExpectedOutputs \cup {<<"5", LF>>, <<"a">>}]

\* the result lists executeCode builds: outcome k has testCase = k and one
\* of the verdicts of determineVerdict
OutcomeLists ==
    UNION {{[k \in 1..n |-> [testCase |-> k, verdict |-> vs[k]]] :
               vs \in [1..n -> {VERDICTS.AC, VERDICTS.WA, VERDICTS.TLE, VERDICTS.RE}]} :
           n \in 1..MaxOutcomes}

SummaryCalls ==
    [fn : {"calculateSummary"}, results : OutcomeLists, totalTime : {0, 2001}]

\* Date.now() at the start of the sweep
SweepNow == 3600005

\* names in the workspace root: two workspaces older than the TTL, one whose
\* age is the TTL exactly, a young one, a name whose suffix is not
\* hexadecimal, and a name of another kind
EntryName ==
    [old |-> <<"w", "s", "_", "4", "_", "a", "1">>,
     older |-> <<"w", "s", "_", "0", "_", "b">>,
     atTTL |-> <<"w", "s", "_", "5", "_", "a">>,
     young |-> <<"w", "s", "_", "3", "6", "0", "0", "0", "0", "4", "_",
         "c">>,
     notHex |-> <<"w", "s", "_", "4", "_", "g">>,
     other |-> <<"n", "o", "t", "e", "s">>]

EntryNames ==
    {EntryName.old, EntryName.older, EntryName.atTTL, EntryName.young,
     EntryName.notHex, EntryName.other}

\* what readdir(WORKSPACE_ROOT, {withFileTypes: true}) can return: up to
\* MaxEntries entries with different names, directories or plain files
EntryLists ==
    {es \in UNION {[1..n -> [name : EntryNames, isDirectory : BOOLEAN]] :
                       n \in 0..MaxEntries} :
        \A j, k \in 1..Len(es) : j # k => es[j].name # es[k].name}

SweepCalls ==
    {c \in [fn : {"cleanupStaleWorkspaces"}, entries : EntryLists,
            rmFails : SUBSET {EntryName.old, EntryName.older}, readdirFails : BOOLEAN] :
        c.rmFails \subseteq {c.entries[k].name : k \in 1..Len(c.entries)}}

\* the start of the server process over a workspace root with these entries
StartCalls == [fn : {"startServer"}, entries : EntryLists]

\* what a compiler can have written to stderr: nothing, a blank, a warning,
\* a diagnostic in either case, a linker message, a Java stack trace, a word
\* that no pattern has
CompileStderrs ==
    {<<>>, <<SP>>, T_warning, T_capitalError,
     <<"a", ":", " ">> \o PatternText.errorColon,
     <<"E", "R", "R", "O", "R", ":">>,
     <<"U", "n", "d", "e", "f", "i", "n", "e", "d", " ", "r", "e", "f", "e", "r",
       "e", "n", "c", "e">>,
     <<"E", "x", "c", "e", "p", "t", "i", "o", "n">>,
     PatternText.cannotFindSymbol}

\* compile(langConfig, workspacePath, sourceFileName) of a compiled language,
\* from the result of the compiler's process on: its exit code and stderr,
\* and whether the artifact is in the workspace
CompileCalls ==
    [fn : {"compile"}, langId : {"cpp", "java"},
     result : [exitCode : ExecExitCodes, stderr : CompileStderrs],
     exists : BOOLEAN]

PureCalls ==
    VerdictCalls \cup SummaryCalls \cup SweepCalls \cup StartCalls
        \cup NormalizeCalls \cup CompareCalls \cup DiffCalls \cup CompileCalls

\* the server is idle and a pure function is about to be called
InitPure ==
    /\ Idle /\ ExtIdle
    /\ timeLimit = [r \in Runs |-> NULL]
    /\ platform = "posix"
    /\ lang = [r \in Runs |-> "cpp"]
    /\ testCases = [r \in Runs |-> OneTest]
    /\ pc = [r \in Runs |-> "idle"]
    /\ call \in PureCalls
    /\ ret = NULL

\* determineVerdict(executionResult, expectedOutput)
CallDetermineVerdict ==
    /\ call.fn = "determineVerdict" /\ ret = NULL
    /\ ret' = Some(determineVerdict(call.executionResult, call.expectedOutput))
    /\ UNCHANGED <<extVars, timeLimit, totalTime, call, platform,
               now, randCount, fsDirs, fsFiles, lang, testCases,
                   pc, workspacePath, i, results, outcome, cleanup, sup, proc, hist>>

\* calculateSummary(results, totalTime)
CallCalculateSummary ==
    /\ call.fn = "calculateSummary" /\ ret = NULL
    /\ ret' = Some(calculateSummary(call.results, call.totalTime))
    /\ UNCHANGED <<extVars, timeLimit, totalTime, call, platform,
               now, randCount, fsDirs, fsFiles, lang, testCases,
                   pc, workspacePath, i, results, outcome, cleanup, sup, proc, hist>>

\* cleanupStaleWorkspaces()
CallCleanupStaleWorkspaces ==
    /\ call.fn = "cleanupStaleWorkspaces" /\ ret = NULL
    /\ ret' = Some(cleanupStaleWorkspaces(call.entries, SweepNow, call.rmFails,
                                          call.readdirFails))
    /\ UNCHANGED <<extVars, timeLimit, totalTime, call, platform,
               now, randCount, fsDirs, fsFiles, lang, testCases,
                   pc, workspacePath, i, results, outcome, cleanup, sup, proc, hist>>

\* server.js from its first statement to the callback of app.listen: the
\* middleware and the routes are registered and the port is opened; no
\* statement reads or changes the workspace root
StartServer ==
    /\ call.fn = "startServer" /\ ret = NULL
    /\ ret' = Some([root |-> {call.entries[k] : k \in 1..Len(call.entries)},
                    listening |-> TRUE])
    /\ UNCHANGED <<extVars, timeLimit, totalTime, call, platform,
               now, randCount, fsDirs, fsFiles, lang, testCases,
                   pc, workspacePath, i, results, outcome, cleanup, sup, proc, hist>>

\* strictNormalizeOutput(output)
CallStrictNormalizeOutput ==
    /\ call.fn = "strictNormalizeOutput" /\ ret = NULL
    /\ ret' = Some(strictNormalizeOutput(call.output))
    /\ UNCHANGED <<extVars, timeLimit, totalTime, call, platform,
               now, randCount, fsDirs, fsFiles, lang, testCases,
                   pc, workspacePath, i, results, outcome, cleanup, sup, proc, hist>>

\* compareOutputs(actual, expected)
CallCompareOutputs ==
    /\ call.fn = "compareOutputs" /\ ret = NULL
    /\ ret' = Some(compareOutputs(call.actual, call.expected))
    /\ UNCHANGED <<extVars, timeLimit, totalTime, call, platform,
               now, randCount, fsDirs, fsFiles, lang, testCases,
                   pc, workspacePath, i, results, outcome, cleanup, sup, proc, hist>>

\* generateDiff(expected, actual)
CallGenerateDiff ==
    /\ call.fn = "generateDiff" /\ ret = NULL
    /\ ret' = Some(generateDiff(call.expected, call.actual))
    /\ UNCHANGED <<extVars, timeLimit, totalTime, call, platform,
               now, randCount, fsDirs, fsFiles, lang, testCases,
                   pc, workspacePath, i, results, outcome, cleanup, sup, proc, hist>>

\* compile(langConfig, ...) from the resumption of its await on
CallCompile ==
    /\ call.fn = "compile" /\ ret = NULL
    /\ ret' = Some(CompileResult(call.result, LANGUAGES[call.langId], call.exists))
    /\ UNCHANGED <<extVars, timeLimit, totalTime, call, platform,
               now, randCount, fsDirs, fsFiles, lang, testCases,
                   pc, workspacePath, i, results, outcome, cleanup, sup, proc, hist>>

NextPure ==
    \/ CallDetermineVerdict \/ CallCalculateSummary
    \/ CallCleanupStaleWorkspaces \/ StartServer
    \/ CallStrictNormalizeOutput \/ CallCompareOutputs
    \/ CallGenerateDiff \/ CallCompile

PureSpec == InitPure /\ [][NextPure]_vars

\* ------------------------------------------------------ specifications
Next ==
    \E r \in Runs :
         \/ GetLanguage(r) \/ CreateWorkspace(r) \/ CreateWorkspaceFails(r)
         \/ WriteSourceFile(r) \/ WriteSourceFileFails(r)
         \/ Compile(r) \/ CompileDone(r) \/ LoopStep(r) \/ RunDone(r)
         \/ Finally(r)
         \/ CleanupRm(r) \/ CleanupRmFails(r) \/ CleanupRetry(r)
         \/ CleanupRetryFails(r) \/ Settle(r)
         \/ TimerFire(r) \/ StdoutData(r) \/ StderrData(r)
         \/ CloseEvent(r) \/ ErrorEvent(r) \/ StdinError(r)
         \/ ChildExit(r) \/ ChildFork(r) \/ DescSetsid(r) \/ DescClosePipes(r)
         \/ DescExit(r) \/ ChildWritesFile(r)

Spec == Init /\ [][Next]_vars

SpecConc == InitConc /\ [][Next]_vars

SpecLimit == InitLimit /\ [][Next]_vars

\* What the event loop guarantees: a continuation whose await has resolved
\* runs, a file-system call completes, a due timer and an emitted event are
\* delivered.  Nothing is assumed of the processes.
OrchStep(r) ==
    \/ GetLanguage(r) \/ CreateWorkspace(r) \/ CreateWorkspaceFails(r)
    \/ WriteSourceFile(r) \/ WriteSourceFileFails(r)
    \/ Compile(r) \/ CompileDone(r) \/ LoopStep(r) \/ RunDone(r)
    \/ Finally(r)
    \/ CleanupRm(r) \/ CleanupRmFails(r) \/ CleanupRetry(r)
    \/ CleanupRetryFails(r) \/ Settle(r)

Fairness ==
    \A r \in Runs :
        /\ WF_vars(OrchStep(r))
        /\ WF_vars(TimerFire(r))
        /\ WF_vars(CloseEvent(r))
        /\ WF_vars(ErrorEvent(r))

FairSpec == Init /\ [][Next]_vars /\ Fairness

\* ------------------------------------------------------ browser extension
\* the problems a page can be parsed into
Problems == {"A", "B"}

\* the messages the background worker answers
Messages ==
    [type : {"STORE_PROBLEM"}, data : {Some(p) : p \in Problems}]
        \cup [type : {"GET_PROBLEM", "CLEAR_PROBLEM", "EXECUTE_CODE", "HEALTH_CHECK"},
              data : {NULL}]

\* how fetch(JUDGE_API_URL + '/run') ends: a response with status 2xx, a
\* response with another status, a network failure, the abort after 30 s
FetchOutcomes == {"ok", "httpError", "networkFailure", "abort"}

\* the worker has just started, over whatever an earlier life of the worker
\* left in chrome.storage.local; the popup has just been opened
InitExt ==
    /\ Idle
    /\ timeLimit = [r \in Runs |-> NULL]
    /\ call = NoCall /\ ret = NULL
    /\ platform = "posix"
    /\ lang = [r \in Runs |-> "cpp"]
    /\ testCases = [r \in Runs |-> OneTest]
    /\ pc = [r \in Runs |-> "idle"]
    /\ currentProblem = NULL
    /\ executionInProgress = FALSE
    /\ storage \in {NULL} \cup {Some(p) : p \in Problems}
    /\ handler = [h \in Handlers |-> NoHandler]
    /\ runBtn = [disabled |-> FALSE]
    /\ runTests = [c \in PopupCalls |-> NoRunTests]
    /\ clearAcked = FALSE

\* handler h is the one a runTests call waits for
Owned(h) == \E c \in PopupCalls : runTests[c].pc # "idle" /\ runTests[c].h = h

Sent(msg) == [NoHandler EXCEPT !.type = msg.type, !.pc = "sent", !.data = msg.data]

Responded(hd, response) == [hd EXCEPT !.pc = "done", !.response = Some(response)]

\* the catch of the message handler: {success: false, error: error.message}
ErrorResponse(message) == [success |-> FALSE, error |-> message]

\* an executeCode that tests the flag inside its try block
executeCodeEntry_checkInTry(inProgress) ==
    IF inProgress
    THEN [throws |-> TRUE, executionInProgress |-> FALSE]
    ELSE [throws |-> FALSE, executionInProgress |-> TRUE]

\* executeCode up to its fetch: the test of the flag throws before the try
\* block is entered, so the finally block does not run for it
executeCodeEntry(inProgress) ==
    IF inProgress
    THEN [throws |-> TRUE, executionInProgress |-> inProgress]
    ELSE [throws |-> FALSE, executionInProgress |-> TRUE]

\* a content script or a page of the extension sends a message
SendMessage(h) ==
    /\ handler[h].pc = "idle" /\ ~ Owned(h)
    /\ \E msg \in Messages : handler' = Set(handler, h, Sent(msg))
    /\ UNCHANGED <<currentProblem, executionInProgress, storage, runBtn, runTests,
                   clearAcked>>
    /\ UNCHANGED srvVars

\* chrome.runtime.onMessage: the listener and its async function up to the
\* first await that waits; chrome.storage.local serves its calls in the
\* order they were made
OnMessage(h) ==
    /\ handler[h].pc = "sent"
    /\ LET hd == [handler[h] EXCEPT !.afterClear = clearAcked] IN
       CASE hd.type = "STORE_PROBLEM" ->
                /\ currentProblem' = hd.data
                /\ storage' = hd.data
                /\ clearAcked' = FALSE
                /\ handler' = Set(handler, h, [hd EXCEPT !.pc = "await"])
                /\ UNCHANGED executionInProgress
         [] hd.type = "GET_PROBLEM" ->
                /\ IF currentProblem # NULL
                   THEN handler' = Set(handler, h,
                            Responded(hd, [success |-> TRUE, problem |-> currentProblem]))
                   ELSE handler' = Set(handler, h,
                            [hd EXCEPT !.pc = "await", !.data = storage])
                /\ UNCHANGED <<currentProblem, storage, executionInProgress, clearAcked>>
         [] hd.type = "CLEAR_PROBLEM" ->
                /\ currentProblem' = NULL
                /\ storage' = NULL
                /\ handler' = Set(handler, h, [hd EXCEPT !.pc = "await"])
                /\ UNCHANGED <<executionInProgress, clearAcked>>
         [] hd.type = "EXECUTE_CODE" ->
                LET entry == executeCodeEntry(executionInProgress) IN
                /\ executionInProgress' = entry.executionInProgress
                /\ handler' = Set(handler, h,
                       IF entry.throws
                       THEN Responded(hd, ErrorResponse("Execution already in progress"))
                       ELSE [hd EXCEPT !.pc = "fetch"])
                /\ UNCHANGED <<currentProblem, storage, clearAcked>>
         [] hd.type = "HEALTH_CHECK" ->
                /\ handler' = Set(handler, h, [hd EXCEPT !.pc = "await"])
                /\ UNCHANGED <<currentProblem, storage, executionInProgress, clearAcked>>
    /\ UNCHANGED <<runBtn, runTests>>
    /\ UNCHANGED srvVars

\* the async function of the listener resumes after an await and runs to its
\* next await or to sendResponse
Resume(h) ==
    /\ handler[h].pc \in {"await", "fetch", "json"}
    /\ LET hd == handler[h] IN
       CASE hd.type = "STORE_PROBLEM" ->
                /\ handler' = Set(handler, h, Responded(hd, [success |-> TRUE]))
                /\ UNCHANGED <<currentProblem, executionInProgress, clearAcked>>
         [] hd.type = "GET_PROBLEM" ->
                \* if (data.currentProblem) { currentProblem = data.currentProblem }
                /\ currentProblem' = IF hd.data # NULL THEN hd.data ELSE currentProblem
                /\ handler' = Set(handler, h,
                       Responded(hd, [success |-> TRUE, problem |-> hd.data]))
                /\ UNCHANGED <<executionInProgress, clearAcked>>
         [] hd.type = "CLEAR_PROBLEM" ->
                /\ handler' = Set(handler, h, Responded(hd, [success |-> TRUE]))
                /\ clearAcked' = TRUE
                /\ UNCHANGED <<currentProblem, executionInProgress>>
         [] hd.type = "HEALTH_CHECK" ->
                /\ \E healthy \in BOOLEAN :
                      handler' = Set(handler, h,
                          Responded(hd, [success |-> TRUE, healthy |-> healthy]))
                /\ UNCHANGED <<currentProblem, executionInProgress, clearAcked>>
         [] hd.type = "EXECUTE_CODE" /\ hd.pc = "fetch" ->
                /\ \E o \in FetchOutcomes :
                      IF o \in {"ok", "httpError"}
                      THEN \* await response.json()
                           /\ handler' = Set(handler, h,
                                  [hd EXCEPT !.pc = "json", !.data = Some(o)])
                           /\ UNCHANGED executionInProgress
                      ELSE \* fetch rejected: catch, finally
                           /\ handler' = Set(handler, h, Responded(hd, ErrorResponse(o)))
                           /\ executionInProgress' = FALSE
                /\ UNCHANGED <<currentProblem, clearAcked>>
         [] hd.type = "EXECUTE_CODE" /\ hd.pc = "json" ->
                /\ \E bodyRead \in BOOLEAN :
                      handler' = Set(handler, h,
                          IF hd.data = Some("ok") /\ bodyRead
                          THEN Responded(hd, [success |-> TRUE, result |-> "result"])
                          ELSE IF hd.data = Some("ok")
                          THEN Responded(hd, ErrorResponse("abort"))
                          ELSE Responded(hd, ErrorResponse("HTTP status")))
                /\ executionInProgress' = FALSE
                /\ UNCHANGED <<currentProblem, clearAcked>>
    /\ UNCHANGED <<storage, runBtn, runTests>>
    /\ UNCHANGED srvVars

\* the sender of a message gets the response
Receive(h) ==
    /\ handler[h].pc = "done" /\ ~ Owned(h)
    /\ handler' = Set(handler, h, NoHandler)
    /\ UNCHANGED <<currentProblem, executionInProgress, storage, runBtn, runTests,
                   clearAcked>>
    /\ UNCHANGED srvVars

\* runTests, called by a click on the Run button (a disabled button gets no
\* click), by Ctrl+Enter or by TRIGGER_RUN, with code and test cases: up to
\* the await of the HEALTH_CHECK response
RunTestsStart(c) ==
    /\ runTests[c].pc = "idle"
    /\ \E trigger \in {"click", "keydown", "TRIGGER_RUN"} :
           trigger = "click" => ~ runBtn.disabled
    /\ \E h \in Handlers :
           /\ handler[h].pc = "idle" /\ ~ Owned(h)
           /\ handler' = Set(handler, h, Sent([type |-> "HEALTH_CHECK", data |-> NULL]))
           /\ runTests' = Set(runTests, c, [pc |-> "health", h |-> h])
    /\ UNCHANGED <<currentProblem, executionInProgress, storage, runBtn, clearAcked>>
    /\ UNCHANGED srvVars

\* runTests from the HEALTH_CHECK response to the await of the EXECUTE_CODE
\* response, or to the return after the alert
RunTestsHealth(c) ==
    /\ runTests[c].pc = "health"
    /\ LET h == runTests[c].h IN
       /\ handler[h].pc = "done"
       /\ IF handler[h].response[1].healthy
          THEN /\ runBtn' = [runBtn EXCEPT !.disabled = TRUE]
               /\ handler' = Set(handler, h,
                      Sent([type |-> "EXECUTE_CODE", data |-> NULL]))
               /\ runTests' = Set(runTests, c, [pc |-> "exec", h |-> h])
          ELSE /\ handler' = Set(handler, h, NoHandler)
               /\ runTests' = Set(runTests, c, NoRunTests)
               /\ UNCHANGED runBtn
    /\ UNCHANGED <<currentProblem, executionInProgress, storage, clearAcked>>
    /\ UNCHANGED srvVars

\* runTests from the EXECUTE_CODE response on: the results or the alert,
\* then the finally block
RunTestsFinish(c) ==
    /\ runTests[c].pc = "exec"
    /\ handler[runTests[c].h].pc = "done"
    /\ runBtn' = [runBtn EXCEPT !.disabled = FALSE]
    /\ handler' = Set(handler, runTests[c].h, NoHandler)
    /\ runTests' = Set(runTests, c, NoRunTests)
    /\ UNCHANGED <<currentProblem, executionInProgress, storage, clearAcked>>
    /\ UNCHANGED srvVars

NextExt ==
    \/ \E h \in Handlers :
           SendMessage(h) \/ OnMessage(h) \/ Resume(h) \/ Receive(h)
    \/ \E c \in PopupCalls :
           RunTestsStart(c) \/ RunTestsHealth(c) \/ RunTestsFinish(c)

ExtSpec == InitExt /\ [][NextExt]_vars

\* ------------------------------------------------------------ properties
Settled(r) == pc[r] = "settled"

Thrown(r) == outcome[r] # NULL /\ outcome[r][1].kind = "throw"

Returned(r) == outcome[r] # NULL /\ outcome[r][1].kind = "return"

\* C1: a call that acquired a workspace calls cleanupWorkspace on it exactly
\* once (never more at any time) and has seen it complete when it settles, on
\* the normal return, the compile-failure return and every throw after the
\* acquisition; a call that acquired none never calls it.
C1_CleanupExactlyOnce ==
    \A r \in Runs :
        /\ hist[r].cleanupCalls <= 1
        /\ hist[r].created = 0 => hist[r].cleanupCalls = 0 /\ cleanup[r] = "none"
        /\ cleanup[r] # "none" => workspacePath[r] # NULL
        /\ Settled(r) /\ hist[r].created > 0 =>
               hist[r].cleanupCalls = 1 /\ cleanup[r] = "resolved"

\* a call that threw after a runner process was spawned has settled, its
\* workspace cleaned up once
C1_Witness ==
    \E r \in Runs :
        /\ Settled(r) /\ Thrown(r)
        /\ hist[r].created = 1 /\ hist[r].runSpawns > 0
        /\ hist[r].cleanupCalls = 1 /\ cleanup[r] = "resolved"

\* C2: a resolved executeWithTimeout call reports timedOut = TRUE exactly
\* when its deadline timer fired before the resolution (the process had not
\* closed by then), FALSE when the close (or spawn error) was handled first;
\* no handler turns a pending promise into a rejected one.
C2_TimedOutIffTimerFired ==
    \A r \in Runs :
        /\ sup[r].promise = "resolved" =>
               sup[r].result[1].timedOut = hist[r].firedAtResolve
        /\ sup[r].promise = "rejected" =>
               pc[r] \notin {"compileWait", "runWait"} /\ Thrown(r)

\* a process killed at its deadline: the call resolved with timedOut
C2_Witness ==
    \E r \in Runs :
        /\ sup[r].promise = "resolved"
        /\ sup[r].result[1].timedOut
        /\ sup[r].result[1].exitCode = NULL
        /\ proc[r].signal = "SIGKILL"

\* C3: once executeWithTimeout has resolved for a timed-out run, no process
\* of the spawned tree (the child, its descendant) is alive.
C3_NoSurvivorAfterTimeout ==
    \A r \in Runs :
        sup[r].promise = "resolved" /\ sup[r].result[1].timedOut =>
            proc[r].child # "alive" /\ proc[r].desc # "alive"

\* C4: every executeWithTimeout call whose deadline has passed eventually
\* resolves, and every executeCode call eventually settles.
C4_EventuallyResolves ==
    \A r \in Runs :
        /\ (sup[r].promise = "pending" /\ sup[r].timer = "fired")
               ~> (sup[r].promise = "resolved")
        /\ (pc[r] = "start") ~> Settled(r)

\* C5: the process of a test case is spawned only when every earlier test
\* case of the run has been judged and the earlier supervised call (the
\* compiler, the previous test case) has resolved with its process gone:
\* test cases run one after the other, in submission order.
C5_SequentialTests ==
    [][\A r \in Runs :
          hist'[r].runSpawns > hist[r].runSpawns =>
              /\ sup[r].promise # "pending"
              /\ proc[r].child # "alive"
              /\ hist[r].runSpawns = i[r] /\ Len(results[r]) = i[r]
              /\ hist'[r].runSpawns = i[r] + 1]_vars

\* the process of the second test case is running, the first one is judged
C5_Witness ==
    \E r \in Runs :
        /\ hist[r].runSpawns = 2 /\ Len(results[r]) = 1
        /\ pc[r] = "runWait" /\ proc[r].child = "alive"

\* C6: a run that compiled and returned has invoked the runner once per
\* test case, returns as many outcomes as test cases, and outcome k carries
\* testCase = k and the expected output of test case k.
C6_OneOutcomePerTest ==
    \A r \in Runs :
        Returned(r) /\ outcome[r][1].value.success =>
            LET res == outcome[r][1].value.results IN
            /\ Len(res) = Len(testCases[r])
            /\ hist[r].runSpawns = Len(testCases[r])
            /\ \A k \in 1..Len(res) :
                   /\ res[k].testCase = k
                   /\ res[k].expectedOutput = testCases[r][k].expectedOutput

\* a run returned two outcomes although the first test case was not accepted
C6_Witness ==
    \E r \in Runs :
        /\ Settled(r) /\ Returned(r) /\ outcome[r][1].value.success
        /\ Len(outcome[r][1].value.results) = 2
        /\ outcome[r][1].value.results[1].verdict = VERDICTS.TLE
        /\ outcome[r][1].value.results[2].verdict = VERDICTS.WA
        /\ testCases[r][1].expectedOutput # testCases[r][2].expectedOutput

\* C7: a failed compilation ends the run: no runner process is spawned, and
\* the call returns success = FALSE, a CE compilation error, no outcomes and
\* the summary CE / passed 0 / failed = number of test cases.
C7_CompileFailureShortCircuits ==
    \A r \in Runs :
        /\ hist[r].compiled = "failed" =>
               /\ hist[r].runSpawns = 0
               /\ pc[r] \in {"finally", "awaitCleanup", "settled"}
               /\ Returned(r) /\ ~ outcome[r][1].value.success
        /\ Returned(r) /\ ~ outcome[r][1].value.success =>
               LET v == outcome[r][1].value IN
               /\ hist[r].compiled = "failed"
               /\ v.compilationError # NULL
               /\ v.compilationError[1].verdict = VERDICTS.CE
               /\ v.results = <<>>
               /\ v.summary.overallVerdict = VERDICTS.CE
               /\ v.summary.passed = 0
               /\ v.summary.failed = Len(testCases[r])

\* a run with two test cases settled on a compile failure
C7_Witness ==
    \E r \in Runs :
        /\ Settled(r) /\ hist[r].compiled = "failed"
        /\ Len(testCases[r]) = 2 /\ hist[r].compileSpawns = 1
        /\ hist[r].runSpawns = 0

InFlight(r) == pc[r] \notin {"idle", "start", "settled"}

\* C8: a run creates at most one workspace, two runs in flight never hold
\* the same path, and the directory of a run lasts until its own cleanup.
C8_WorkspaceIsolation ==
    /\ \A r \in Runs : hist[r].created <= 1
    /\ \A r1, r2 \in Runs :
           r1 # r2 /\ InFlight(r1) /\ InFlight(r2)
             /\ workspacePath[r1] # NULL /\ workspacePath[r2] # NULL
           => workspacePath[r1] # workspacePath[r2]
    /\ \A r \in Runs :
           workspacePath[r] # NULL /\ hist[r].rmCalls = 0 =>
               workspacePath[r] \in fsDirs

\* two runs in flight at once, created in the same millisecond, one of them
\* compiling
C8_Witness ==
    \E r1, r2 \in Runs :
        /\ r1 # r2 /\ pc[r1] = "compileWait" /\ pc[r2] = "writeSourceFile"
        /\ workspacePath[r1][1] = workspacePath[r2][1]
        /\ {workspacePath[r1], workspacePath[r2]} \subseteq fsDirs

\* C9 as stated: once cleanupWorkspace has completed, the directory is gone.
C9_DeletedAfterRelease ==
    \A r \in Runs : cleanup[r] = "resolved" => workspacePath[r] \notin fsDirs

\* C9 amended: once cleanupWorkspace has completed, the directory is gone
\* unless both delete attempts failed; it is deleted at most once, and
\* exactly once when an attempt succeeded.
C9_DeletedUnlessBothFail ==
    \A r \in Runs :
        /\ hist[r].deleted <= 1
        /\ cleanup[r] = "resolved" =>
               /\ workspacePath[r] \in fsDirs <=> hist[r].rmFails = 2
               /\ workspacePath[r] \notin fsDirs => hist[r].deleted = 1

\* a call settled after a first delete that failed and a retry that deleted
C9_Witness ==
    \E r \in Runs :
        /\ Settled(r) /\ hist[r].rmFails = 1 /\ hist[r].rmCalls = 2
        /\ hist[r].deleted = 1 /\ workspacePath[r] \notin fsDirs

\* C10: cleanupWorkspace makes at most two delete attempts, the second one
\* only after the first failed, and resolves whatever they do; from the
\* finally block on, what executeCode returns or throws no longer changes.
C10_CleanupNeverRejects ==
    /\ [](\A r \in Runs :
            /\ cleanup[r] \in {"none", "delay", "retry", "resolved"}
            /\ hist[r].rmCalls <= 2
            /\ hist[r].rmCalls = 2 => hist[r].rmFails >= 1
            /\ cleanup[r] = "resolved" /\ hist[r].rmFails >= 1 => hist[r].rmCalls = 2
            /\ cleanup[r] = "retry" => hist[r].rmCalls = 1 /\ hist[r].rmFails = 1)
    /\ [][\A r \in Runs :
            pc[r] \in {"finally", "awaitCleanup"} => outcome'[r] = outcome[r]]_vars

\* both delete attempts failed and the call still returned its results
C10_Witness ==
    \E r \in Runs :
        /\ Settled(r) /\ hist[r].rmFails = 2 /\ cleanup[r] = "resolved"
        /\ Returned(r) /\ outcome[r][1].value.success
\* what determineVerdict returned, and for which call
Judged == call.fn = "determineVerdict" /\ ret # NULL

\* C11: determineVerdict returns TLE for every execution result that has
\* timedOut = TRUE, whatever its exit code, stderr and stdout, also when the
\* captured stdout equals the expected output.
C11_TimedOutIsTLE ==
    Judged /\ call.executionResult.timedOut => ret[1].verdict = VERDICTS.TLE

\* a timed-out result that exited with code 1, wrote a fault message and
\* the expected output has been judged
C11_Witness ==
    /\ Judged /\ call.executionResult.timedOut
    /\ call.executionResult.exitCode = Some(1)
    /\ call.executionResult.stderr = PatternText.coreDumped
    /\ call.executionResult.stdout = call.expectedOutput
    /\ ret[1].verdict = VERDICTS.TLE

\* C12: an execution result that did not time out and has a non-null,
\* non-zero exit code is judged RE whatever stdout and stderr are, and the
\* message of the verdict includes that exit code.
C12_NonZeroExitIsRE ==
    Judged /\ ~ call.executionResult.timedOut
           /\ call.executionResult.exitCode \notin {NULL, Some(0)} =>
        /\ ret[1].verdict = VERDICTS.RE
        /\ Includes(ret[1].message, IntToText(call.executionResult.exitCode[1]))

\* exit code -1, no stderr, and the output is the expected one
C12_Witness ==
    /\ Judged /\ ~ call.executionResult.timedOut
    /\ call.executionResult.exitCode = Some(0 - 1)
    /\ call.executionResult.stderr = <<>>
    /\ call.executionResult.stdout = call.expectedOutput
    /\ ret[1].verdict = VERDICTS.RE
    /\ Includes(ret[1].message, <<"-", "1">>)

\* C13: a test run whose process was ended by a signal without having
\* timed out (the supervisor reports exit code null and the signal) is
\* judged RE.
C13_CrashIsRE ==
    [][\A r \in Runs :
          pc[r] = "runWait" /\ pc'[r] = "loop"
            /\ sup[r].result[1].signal # "" /\ ~ sup[r].result[1].timedOut
          => results'[r][Len(results'[r])].verdict = VERDICTS.RE]_vars

\* the words of a runtime fault: error, exception, segmentation fault, core
\* dumped, in any case
FaultText(stderr) ==
    \E w \in {PatternText.error, PatternText.exception, PatternText.segfault,
              PatternText.coreDumped} : ContainsI(stderr, w)

NormalizedEqual(a, b) == strictNormalizeOutput(a) = strictNormalizeOutput(b)

\* C14: for a result that did not time out and exited with code 0, the
\* verdict is RE when stderr is not empty and holds a fault word, also when
\* the normalized stdout equals the expected output; a non-empty stderr
\* without a fault word leaves the verdict to the comparison of the outputs.
C14_StderrFaultIsRE ==
    Judged /\ ~ call.executionResult.timedOut
           /\ call.executionResult.exitCode = Some(0)
           /\ call.executionResult.stderr # <<>> =>
        LET e == call.executionResult IN
        /\ FaultText(e.stderr) => ret[1].verdict = VERDICTS.RE
        /\ ~ FaultText(e.stderr) =>
              ret[1].verdict = IF NormalizedEqual(e.stdout, call.expectedOutput)
                               THEN VERDICTS.AC ELSE VERDICTS.WA

\* exit code 0, "Error" on stderr and the expected output on stdout: RE
C14_Witness ==
    /\ Judged /\ ~ call.executionResult.timedOut
    /\ call.executionResult.exitCode = Some(0)
    /\ call.executionResult.stderr = T_capitalError
    /\ NormalizedEqual(call.executionResult.stdout, call.expectedOutput)
    /\ ret[1].verdict = VERDICTS.RE

\* C15: determineVerdict returns for every execution result exactly one of
\* TLE, RE, AC, WA, never CE, by strict precedence: TLE exactly when the
\* result timed out; otherwise RE exactly when the exit code is neither 0
\* nor null or stderr holds a fault word; otherwise AC exactly when the
\* normalized outputs are equal, and WA when they are not.
C15_TotalWithPrecedence ==
    Judged =>
        LET e == call.executionResult
            tle == e.timedOut
            re == ~ tle /\ (e.exitCode \notin {NULL, Some(0)} \/ FaultText(e.stderr))
            eq == NormalizedEqual(e.stdout, call.expectedOutput)
        IN  /\ ret[1].verdict \in {VERDICTS.TLE, VERDICTS.RE, VERDICTS.AC, VERDICTS.WA}
            /\ ret[1].verdict = VERDICTS.TLE <=> tle
            /\ ret[1].verdict = VERDICTS.RE <=> re
            /\ ret[1].verdict = VERDICTS.AC <=> ~ tle /\ ~ re /\ eq
            /\ ret[1].verdict = VERDICTS.WA <=> ~ tle /\ ~ re /\ ~ eq

\* an output that differs from the expected one only by its line end and a
\* trailing blank is accepted, next to a warning on stderr
C15_Witness ==
    /\ Judged
    /\ call.executionResult.stdout = <<"5", SP, CR, LF>>
    /\ call.expectedOutput = <<"5">>
    /\ call.executionResult.stderr = T_warning
    /\ call.executionResult.exitCode = Some(0)
    /\ ret[1].verdict = VERDICTS.AC

\* C16: every test outcome with verdict WA that executeCode holds or returns
\* carries a diff that is not null.
C16_WrongAnswerHasDiff ==
    \A r \in Runs : \A k \in 1..Len(results[r]) :
        results[r][k].verdict = VERDICTS.WA => results[r][k].diff # NULL

\* what calculateSummary returned, and for which results
Summed == call.fn = "calculateSummary" /\ ret # NULL

Has(res, v) == \E k \in 1..Len(res) : res[k].verdict = v

\* C17: the overall verdict is AC exactly when every outcome is AC;
\* otherwise TLE when some outcome is TLE; otherwise RE when some outcome is
\* RE; otherwise WA.
C17_OverallVerdict ==
    Summed =>
        LET res == call.results
            allAC == \A k \in 1..Len(res) : res[k].verdict = VERDICTS.AC
        IN  ret[1].overallVerdict =
                IF allAC THEN VERDICTS.AC
                ELSE IF Has(res, VERDICTS.TLE) THEN VERDICTS.TLE
                ELSE IF Has(res, VERDICTS.RE) THEN VERDICTS.RE
                ELSE VERDICTS.WA

\* WA, then RE, then TLE: the summary says TLE
C17_Witness ==
    /\ Summed /\ Len(call.results) = 3
    /\ call.results[1].verdict = VERDICTS.WA
    /\ call.results[2].verdict = VERDICTS.RE
    /\ call.results[3].verdict = VERDICTS.TLE
    /\ ret[1].overallVerdict = VERDICTS.TLE

\* C18: firstFailure is the 1-based position of the earliest outcome whose
\* verdict is not AC, and null exactly when every outcome is AC.
C18_FirstFailure ==
    Summed =>
        LET res == call.results
            failing == {k \in 1..Len(res) : res[k].verdict # VERDICTS.AC}
        IN  /\ ret[1].firstFailure = NULL <=> failing = {}
            /\ failing # {} =>
                  /\ ret[1].firstFailure[1] \in failing
                  /\ \A k \in failing : ret[1].firstFailure[1] <= k

\* AC, then WA, then TLE: the first failure is test 2
C18_Witness ==
    /\ Summed /\ Len(call.results) = 3
    /\ call.results[1].verdict = VERDICTS.AC
    /\ call.results[2].verdict = VERDICTS.WA
    /\ call.results[3].verdict = VERDICTS.TLE
    /\ ret[1].firstFailure = Some(2)

\* the result the error handler delivers
SpawnErrorResult(result) ==
    /\ result.exitCode = Some(0 - 1)
    /\ ~ result.timedOut /\ ~ result.killed
    /\ result.stdout = <<>>
    /\ Includes(result.stderr, <<"E", "N", "O", "E", "N", "T">>)

\* C19: no executeWithTimeout call is ever rejected; once the 'error' event
\* of a failed spawn has been handled the call is resolved with exit code
\* -1, timedOut and killed FALSE and the spawn error in stderr, its timer is
\* cancelled, and no later event (the 'close' that follows) changes the
\* result of a resolved call.
C19_NeverRejectsSettlesOnce ==
    /\ [](\A r \in Runs :
            /\ sup[r].promise # "rejected"
            /\ sup[r].errorSeen =>
                   /\ sup[r].promise = "resolved"
                   /\ SpawnErrorResult(sup[r].result[1])
                   /\ sup[r].timer = "cleared")
    /\ [][\A r \in Runs :
            sup[r].promise = "resolved" /\ sup'[r].promise = "resolved" =>
                sup'[r].result = sup[r].result]_vars

\* C20: a spawn that failed never makes executeCode throw.  The step that
\* follows the await of a failed compiler spawn returns the CE response with
\* no outcomes; the step that follows the await of a failed run spawn pushes
\* an RE outcome and goes on with the loop, whose end is the normal return
\* with success = TRUE; and a settled call has released its workspace.
C20_MissingBinaryNeverThrows ==
    /\ [][\A r \in Runs :
            proc[r].child = "failed" /\ pc'[r] # pc[r] =>
                /\ pc[r] = "compileWait" =>
                       /\ outcome'[r] # NULL /\ outcome'[r][1].kind = "return"
                       /\ ~ outcome'[r][1].value.success
                       /\ outcome'[r][1].value.results = <<>>
                       /\ outcome'[r][1].value.compilationError[1].verdict = VERDICTS.CE
                /\ pc[r] = "runWait" =>
                       /\ pc'[r] = "loop" /\ outcome'[r] = NULL
                       /\ Len(results'[r]) = Len(results[r]) + 1
                       /\ results'[r][Len(results'[r])].verdict = VERDICTS.RE]_vars
    /\ [](\A r \in Runs :
            /\ Settled(r) /\ workspacePath[r] # NULL => cleanup[r] = "resolved"
            /\ Returned(r) /\ outcome[r][1].value.success =>
                   Len(outcome[r][1].value.results) = Len(testCases[r]))

\* the run command could not be spawned for either of two test cases: the
\* call returned two RE outcomes with exit code -1 and released its workspace
C20_Witness ==
    \E r \in Runs :
        /\ Settled(r) /\ Returned(r) /\ outcome[r][1].value.success
        /\ Len(outcome[r][1].value.results) = 2
        /\ \A k \in 1..2 :
               /\ outcome[r][1].value.results[k].verdict = VERDICTS.RE
               /\ Includes(outcome[r][1].value.results[k].message, <<"-", "1">>)
        /\ cleanup[r] = "resolved" /\ hist[r].cleanupCalls = 1

T_expected == <<"E", "x", "p", "e", "c", "t", "e", "d">>

\* C22: for a compiled language the run goes on to the tests (compile
\* reported success) only when the compiler exited with code 0 and the
\* artifact is in the workspace; for an interpreted language compile
\* succeeds and never spawns a process.
C22_CompileSuccess ==
    /\ [][\A r \in Runs :
            pc[r] = "compileWait" /\ pc'[r] # pc[r] =>
                LET ok == /\ sup[r].result[1].exitCode = Some(0)
                          /\ fileExists(workspacePath[r], "executable")
                IN  /\ pc'[r] = "loop" => ok
                    /\ hist'[r].compiled = "ok" <=> pc'[r] = "loop"
                    /\ ~ ok => hist'[r].compiled = "failed"]_vars
    /\ [](\A r \in Runs :
            getLanguage(lang[r]) # NULL /\ ~ LANGUAGES[lang[r]].needsCompilation =>
                /\ hist[r].compileSpawns = 0 /\ hist[r].compiled = "none"
                /\ pc[r] # "compileWait"
                /\ Returned(r) => outcome[r][1].value.success)

\* the compiler exited with code 0 and left no artifact: the run returned
\* the compile failure "Executable not found"
C22_Witness ==
    \E r \in Runs :
        /\ Returned(r) /\ ~ outcome[r][1].value.success
        /\ hist[r].compiled = "failed" /\ hist[r].runSpawns = 0
        /\ outcome[r][1].value.compilationError[1].stderr = T_expected
        /\ ~ fileExists(workspacePath[r], "executable")

\* what the judge itself puts into the workspace of a run
JudgeFiles(r) ==
    {<<workspacePath[r], "source">>} \cup
        (IF LANGUAGES[lang[r]].needsCompilation
         THEN {<<workspacePath[r], "executable">>} ELSE {})

\* C23: the executions of the test cases of a run share no state: the
\* process of every test case starts in a working directory that holds what
\* the judge put there and nothing an earlier test case left or changed.
C23_NoSharedState ==
    [][\A r \in Runs :
          hist'[r].runSpawns > hist[r].runSpawns =>
              FilesOf(workspacePath[r]) = JudgeFiles(r)]_vars

\* what cleanupStaleWorkspaces did, and to which workspace root
Swept == call.fn = "cleanupStaleWorkspaces" /\ ret # NULL

RootBefore == {call.entries[k] : k \in 1..Len(call.entries)}

\* the entries a sweep at SweepNow has to remove: directories named as a
\* workspace whose timestamp is more than one hour old
StaleEntries == {e \in RootBefore : e.isDirectory /\ e.name \in {EntryName.old, EntryName.older}}

\* C24: the sweep removes the stale workspace directories and nothing else,
\* a removal that fails leaves its entry and does not keep the sweep from
\* the other entries, and the count returned is the number of directories
\* removed; when the root cannot be read nothing is removed and 0 returned.
C24_SweepRemovesStaleOnly ==
    Swept =>
        LET removed == RootBefore \ ret[1].root IN
        /\ ret[1].root \subseteq RootBefore
        /\ ret[1].cleanedCount = Cardinality(removed)
        /\ removed = IF call.readdirFails THEN {}
                     ELSE {e \in StaleEntries : e.name \notin call.rmFails}

\* the removal of the first stale workspace failed, the second one was
\* removed all the same, and the workspace whose age is the TTL stayed
C24_Witness ==
    /\ Swept /\ ~ call.readdirFails /\ Len(call.entries) = 3
    /\ call.entries[1] = [name |-> EntryName.old, isDirectory |-> TRUE]
    /\ call.entries[2] = [name |-> EntryName.older, isDirectory |-> TRUE]
    /\ call.entries[3] = [name |-> EntryName.atTTL, isDirectory |-> TRUE]
    /\ call.rmFails = {EntryName.old}
    /\ ret[1].cleanedCount = 1
    /\ ret[1].root = {call.entries[1], call.entries[3]}

\* C25: once the server is up, no workspace directory older than the TTL
\* that an earlier server process left behind is still in the workspace root.
C25_StartupSweep ==
    call.fn = "startServer" /\ ret # NULL /\ ret[1].listening =>
        ret[1].root \cap StaleEntries = {}

\* what strictNormalizeOutput returned, and for which text
Normalized == call.fn = "strictNormalizeOutput" /\ ret # NULL

\* what compareOutputs returned, and for which texts
Compared == call.fn = "compareOutputs" /\ ret # NULL

\* C26: normalizing a normalized text changes nothing.
C26_Idempotent ==
    Normalized => strictNormalizeOutput(ret[1]) = ret[1]

\* a text with blanks before its line ends and a blank last line has been
\* normalized to a shorter text
C26_Witness ==
    /\ Normalized
    /\ call.output = <<"a", SP, LF, TAB>>
    /\ ret[1] = <<"a">>
    /\ strictNormalizeOutput(ret[1]) = ret[1]

\* x with every \n replaced by \r\n
RECURSIVE ToCRLF(_)
ToCRLF(s) ==
    IF s = <<>> THEN <<>>
    ELSE IF Head(s) = LF THEN <<CR, LF>> \o ToCRLF(Tail(s))
    ELSE <<Head(s)>> \o ToCRLF(Tail(s))

\* C27 as stated: for every text, replacing each \n by \r\n leaves the
\* normalized text as it was.
C27_LineEndingInsensitive ==
    Normalized => strictNormalizeOutput(ToCRLF(call.output)) = ret[1]

\* some \n of the text comes right after a \r
HasCRLF(s) == \E k \in 1..(Len(s) - 1) : s[k] = CR /\ s[k + 1] = LF

\* C27 amended: for every text in which no \n comes right after a \r,
\* replacing each \n by \r\n leaves the normalized text as it was.
\* The comparison of two texts does not change either (the compared texts
\* hold no \r).
C27_LineEndingInsensitiveNoCRLF ==
    /\ Normalized /\ ~ HasCRLF(call.output) =>
            strictNormalizeOutput(ToCRLF(call.output)) = ret[1]
    /\ Compared =>
            /\ compareOutputs(ToCRLF(call.actual), call.expected) = ret[1]
            /\ compareOutputs(call.actual, ToCRLF(call.expected)) = ret[1]

\* a text of two lines, the second one indented, was normalized; its
\* version with \r\n normalizes to the same text
C27_Witness ==
    /\ Normalized
    /\ call.output = <<"a", LF, SP, "A">>
    /\ ret[1] = call.output
    /\ strictNormalizeOutput(<<"a", CR, LF, SP, "A">>) = ret[1]

\* the characters of s that are no white space, in their order
NonWs(s) == SelectSeq(s, LAMBDA c : c \notin WhiteSpace)

\* two different texts that are equal once the case is folded
DifferOnlyInCase(s, t) == s # t /\ LowerText(s) = LowerText(t)

\* C28: normalization keeps every character that is no white space as it
\* is, case included; two texts that differ only in letter case never compare
\* equal, and determineVerdict never returns AC for such a pair.
C28_CaseSensitive ==
    /\ Normalized => NonWs(ret[1]) = NonWs(call.output)
    /\ Compared /\ DifferOnlyInCase(call.actual, call.expected) => ret[1] = FALSE
    /\ Judged /\ DifferOnlyInCase(call.executionResult.stdout, call.expectedOutput) =>
            ret[1].verdict # VERDICTS.AC

\* "aA" and "Aa" have been compared and found different
C28_Witness ==
    /\ Compared
    /\ call.actual = <<"a", "A">> /\ call.expected = <<"A", "a">>
    /\ ret[1] = FALSE

\* s with the text p put in before position k
InsertAt(s, k, p) == SubSeq(s, 1, k - 1) \o p \o SubSeq(s, k, Len(s))

\* s with character c at position k
ReplaceAt(s, k, c) == [s EXCEPT ![k] = c]

\* the positions at which a line of s ends
LineEnds(s) == {k \in 1..(Len(s) + 1) : k = Len(s) + 1 \/ s[k] = LF}

\* runs of spaces and tabs, and runs of blank lines
Paddings == UNION {[1..n -> {SP, TAB}] : n \in 1..2}
BlankLines == {<<LF>>, <<LF, LF>>, <<LF, SP, LF>>}

\* spaces and tabs appended to a line of the actual output, and blank lines
\* appended to the output, leave the result of the comparison as it was
TrailingInsignificant ==
    Compared =>
        /\ \A k \in LineEnds(call.actual) : \A p \in Paddings :
               compareOutputs(InsertAt(call.actual, k, p), call.expected) = ret[1]
        /\ \A b \in BlankLines :
               compareOutputs(call.actual \o b, call.expected) = ret[1]

\* a different character in place of one that is no white space makes two
\* outputs that compared equal compare different
OtherCharacterFails ==
    Compared /\ ret[1] = TRUE =>
        \A k \in 1..Len(call.actual) : \A c \in {"a", "A", "b"} :
            call.actual[k] \notin WhiteSpace /\ c # call.actual[k] =>
                ~ compareOutputs(ReplaceAt(call.actual, k, c), call.expected)

\* position k of s is inside a line: a character that is no white space
\* follows on the same line
InsideLine(s, k) ==
    \E j \in k..Len(s) :
        /\ s[j] \notin WhiteSpace
        /\ \A h \in k..j : s[h] # LF

\* position k of s is not at the start of the first line
NotFirstLineStart(s, k) ==
    \E j \in 1..(k - 1) : s[j] = LF \/ s[j] \notin WhiteSpace

\* a character of s that is no white space comes before position k
AfterText(s, k) == \E j \in 1..(k - 1) : s[j] \notin WhiteSpace

\* C29 as stated: trailing blanks and blank lines do not change the result
\* of the comparison, and every blank put inside a line, other than at the
\* start of the first line, and every different character make it fail.
C29_TrailingFormatting ==
    /\ TrailingInsignificant
    /\ OtherCharacterFails
    /\ Compared /\ ret[1] = TRUE =>
            \A k \in 1..Len(call.actual) : \A c \in {SP, TAB} :
                InsideLine(call.actual, k) /\ NotFirstLineStart(call.actual, k) =>
                    ~ compareOutputs(InsertAt(call.actual, k, <<c>>), call.expected)

\* C29 amended: trailing blanks and blank lines do not change the result of
\* the comparison; a blank put inside a line after some character of the
\* text that is no white space, and every different character, make it fail.
C29_TrailingFormattingAfterText ==
    /\ TrailingInsignificant
    /\ OtherCharacterFails
    /\ Compared /\ ret[1] = TRUE =>
            \A k \in 1..Len(call.actual) : \A c \in {SP, TAB} :
                InsideLine(call.actual, k) /\ AfterText(call.actual, k) =>
                    ~ compareOutputs(InsertAt(call.actual, k, <<c>>), call.expected)

\* "a a" was compared with "a a" and found equal; it still is with blanks
\* and blank lines appended, and no longer is with a second blank between the
\* letters
C29_Witness ==
    /\ Compared
    /\ call.actual = <<"a", SP, "a">> /\ call.expected = <<"a", SP, "a">>
    /\ ret[1] = TRUE
    /\ compareOutputs(<<"a", SP, "a", SP, TAB, LF, LF>>, call.expected)
    /\ ~ compareOutputs(<<"a", SP, SP, "a">>, call.expected)

\* what generateDiff returned, and for which texts
Diffed == call.fn = "generateDiff" /\ ret # NULL

\* the entries of the diff d for line number n
EntriesAt(d, n) == {k \in 1..Len(d.differences) : d.differences[k].lineNumber = n}

\* p is the first offset at which the lines e and a differ: the lines agree
\* before p, and p is either an offset of both with different characters or
\* the length of the shorter line
FirstDifference(e, a, p) ==
    /\ p >= 0 /\ p <= Len(e) /\ p <= Len(a)
    /\ \A j \in 1..p : e[j] = a[j]
    /\ \/ p < Len(e) /\ p < Len(a) /\ e[p + 1] # a[p + 1]
       \/ (p = Len(e) \/ p = Len(a)) /\ Len(e) # Len(a)

\* C30: generateDiff reports, for each line number up to the longer line
\* count and in this order, 'missing' exactly when only expected has the
\* line, 'extra' exactly when only actual has it, 'different' exactly when
\* both have it and the lines are unequal, and nothing when they are equal;
\* a 'different' entry gives the first offset at which the lines differ and
\* the actual length minus the expected length; hasDifferences holds
\* exactly when there is an entry.
C30_DiffAlignsLines ==
    Diffed =>
        LET d == ret[1]
            E == Split(call.expected)
            A == Split(call.actual)
        IN  /\ d.totalLines = Max2(Len(E), Len(A))
            /\ \A k \in 1..Len(d.differences) :
                   d.differences[k].lineNumber \in 1..d.totalLines
            /\ \A j, k \in 1..Len(d.differences) :
                   j < k => d.differences[j].lineNumber < d.differences[k].lineNumber
            /\ \A n \in 1..d.totalLines :
                   LET at == {d.differences[k] : k \in EntriesAt(d, n)}
                       types == {x.type : x \in at}
                   IN  /\ types = IF n > Len(E) THEN {"extra"}
                                  ELSE IF n > Len(A) THEN {"missing"}
                                  ELSE IF E[n] # A[n] THEN {"different"}
                                  ELSE {}
                       /\ \A x \in at : x.type = "different" =>
                              /\ FirstDifference(E[n], A[n], x.characterDiff.position)
                              /\ x.characterDiff.lengthDifference = Len(A[n]) - Len(E[n])
            /\ d.hasDifferences <=> Len(d.differences) >= 1

\* expected "6" and actual "5": one 'different' entry, at offset 0; and a
\* longer actual line was reported with the length of the shorter one
C30_Witness ==
    /\ Diffed
    /\ \/ /\ call.expected = <<"6">> /\ call.actual = <<"5">>
          /\ ret[1].hasDifferences
          /\ Len(ret[1].differences) = 1
          /\ ret[1].differences[1].type = "different"
          /\ ret[1].differences[1].characterDiff.position = 0
       \/ /\ call.expected = <<"5", LF, "6">> /\ call.actual = <<"5", "6", "6">>
          /\ Len(ret[1].differences) = 2
          /\ ret[1].differences[1].characterDiff.position = 1
          /\ ret[1].differences[1].characterDiff.lengthDifference = 2
          /\ ret[1].differences[2].type = "missing"

\* the deadline every test case of run r is to be executed with
SubmissionLimit(r) == IF timeLimit[r] = NULL THEN 2000 ELSE timeLimit[r][1]

\* every supervised call of a run has the timeout it is meant to have
TimeoutsAsSubmitted ==
    \A r \in Runs :
        /\ sup[r].kind = "run" => sup[r].timeout = SubmissionLimit(r)
        /\ sup[r].kind = "compile" => sup[r].timeout = 10000

\* executeCode goes on after the compiler of run r has resolved
CompileResumes(r) == pc[r] = "compileWait" /\ pc'[r] # "compileWait"

\* run r returns the compile failure: verdict CE, no test case run
ReturnsCE(r) ==
    /\ outcome'[r] # NULL /\ outcome'[r][1].kind = "return"
    /\ ~ outcome'[r][1].value.success
    /\ outcome'[r][1].value.summary.overallVerdict = VERDICTS.CE
    /\ outcome'[r][1].value.compilationError[1].verdict = VERDICTS.CE
    /\ outcome'[r][1].value.results = <<>>
    /\ hist'[r].runSpawns = 0

\* C31 as stated: every test case of a run is supervised with the time limit
\* of the submission (2000 ms when it is omitted) as its timeout, the compiler
\* always with 10000 ms; a compilation whose deadline timer ran is reported
\* as a compile failure with verdict CE, and no test case is run.
C31_Deadlines ==
    /\ []TimeoutsAsSubmitted
    /\ [][\A r \in Runs :
             CompileResumes(r) /\ sup[r].result[1].timedOut => ReturnsCE(r)]_vars

\* C31 amended: the timeouts are as stated; a compilation that its deadline
\* timer killed (it did not exit with code 0) is reported as a compile
\* failure with verdict CE, and no test case is run.
C31_DeadlinesKilledCompile ==
    /\ []TimeoutsAsSubmitted
    /\ [][\A r \in Runs :
             (/\ CompileResumes(r)
              /\ sup[r].result[1].timedOut
              /\ sup[r].result[1].exitCode # Some(0)) => ReturnsCE(r)]_vars

\* the second test case of a compiled submission with a time limit of 1000 ms
\* is being executed, after a first one that ran into its deadline
C31_Witness ==
    \E r \in Runs :
        /\ timeLimit[r] = Some(1000)
        /\ lang[r] = "cpp" /\ hist[r].compileSpawns = 1
        /\ sup[r].kind = "run" /\ sup[r].timeout = 1000
        /\ i[r] = 1 /\ results[r][1].verdict = VERDICTS.TLE
        /\ results[r][1].executionTime = 1000

\* the supervised call of run r has resolved by its close or error handler
Resolved(r) ==
    sup[r].promise = "resolved" /\ (sup[r].closeSeen \/ sup[r].errorSeen)

\* C32: a supervised process is killed at most once, only by its deadline
\* timer and only before its call has resolved; once the call has resolved
\* by the close or the error handler the timer is no longer armed; no
\* process is killed by the code in any other step.
C32_KillOnceBeforeResolve ==
    /\ [](\A r \in Runs :
             /\ sup[r].kills <= 1
             /\ sup[r].kills = 1 => sup[r].timer = "fired"
             /\ Resolved(r) => sup[r].timer # "armed")
    /\ [][\A r \in Runs :
             /\ sup'[r].kills > sup[r].kills =>
                    /\ sup[r].timer = "armed" /\ sup[r].kills = 0
                    /\ ~ Resolved(r)
             /\ (proc'[r].signal = "SIGKILL" /\ proc[r].signal # "SIGKILL") =>
                    sup'[r].kills > sup[r].kills]_vars

\* a process was killed by its timer, and the close event has then resolved
\* its call
C32_Witness ==
    \E r \in Runs :
        /\ sup[r].kills = 1 /\ proc[r].signal = "SIGKILL"
        /\ Resolved(r) /\ sup[r].closeSeen /\ sup[r].timer = "fired"

\* the cleanup of the workspace of run r has begun
CleanupBegun(r) == hist[r].cleanupCalls > 0

\* C33: once the cleanup of a run's workspace has begun, no supervised call
\* of the run is still unresolved and no process of the run is alive under
\* supervision, and no compiler or test process is started any more.
C33_CleanupAfterProcesses ==
    /\ [](\A r \in Runs :
             CleanupBegun(r) =>
                 /\ sup[r].promise \in {"none", "resolved"}
                 /\ sup[r].timer # "armed")
    /\ [][\A r \in Runs :
             (\/ hist'[r].compileSpawns > hist[r].compileSpawns
              \/ hist'[r].runSpawns > hist[r].runSpawns) => ~ CleanupBegun(r)]_vars

\* C34: on either platform, when the kill of the process tree that the
\* deadline timer issues fails, the catch block runs and the kill of the
\* spawned process alone is attempted.
C34_FallbackKill ==
    [][\A r \in Runs :
          (sup'[r].kills > sup[r].kills /\ TreeKillFails(proc[r], platform)) =>
              TreeKillThrows(proc[r], platform)]_vars

\* C35: the stdin error handler sets the flag stdinError of its call and
\* changes nothing else: the process is not killed, the call does not
\* settle, the captured output, the flags and the timer stay as they are;
\* the result of a call that its close handler resolved carries the captured
\* stdout and stderr, the exit code of the process, timedOut and the flag.
C35_StdinErrorNonFatal ==
    /\ [][\A r \in Runs :
             (sup'[r].stdinError /\ ~ sup[r].stdinError) =>
                 /\ sup'[r] = [sup[r] EXCEPT !.stdinError = TRUE]
                 /\ proc' = proc /\ pc' = pc /\ outcome' = outcome
                 /\ results' = results]_vars
    /\ [](\A r \in Runs :
             (sup[r].closeSeen /\ ~ sup[r].errorSeen /\ sup[r].promise = "resolved") =>
                 /\ sup[r].result[1].stdout = sup[r].stdout
                 /\ sup[r].result[1].stderr = sup[r].stderr
                 /\ sup[r].result[1].exitCode = proc[r].code
                 /\ sup[r].result[1].timedOut = sup[r].timedOut
                 /\ sup[r].result[1].stdinError = sup[r].stdinError)

\* a test process whose stdin write failed has printed its answer and exited
\* with code 0: the result has the output, the exit code and the flag
C35_Witness ==
    \E r \in Runs :
        /\ sup[r].promise = "resolved" /\ sup[r].closeSeen
        /\ sup[r].result[1].stdinError
        /\ sup[r].result[1].stdout = <<"5", LF>>
        /\ sup[r].result[1].exitCode = Some(0)
        /\ ~ sup[r].result[1].timedOut

Compiled == call.fn = "compile" /\ ret # NULL

\* the compiler's stderr has a match for one of the language's patterns
MatchesErrorPattern(c) ==
    \E pattern \in LANGUAGES[c.langId].errorPatterns :
        ContainsI(c.result.stderr, pattern)

\* C36: compile of a compiled language returns success exactly when the
\* compiler exited with code 0, the artifact exists and the compiler's stderr
\* matches none of the language's error patterns; a non-zero or null exit
\* code, a matching stderr with exit code 0 and a missing artifact are
\* failures.
C36_CompileSuccess ==
    Compiled =>
        /\ ret[1].success <=>
               /\ call.result.exitCode = Some(0)
               /\ call.exists
               /\ ~ MatchesErrorPattern(call)
        /\ call.result.exitCode = NULL => ~ ret[1].success
        /\ (call.result.exitCode # NULL /\ call.result.exitCode[1] # 0)
               => ~ ret[1].success
        /\ ~ call.exists => ~ ret[1].success
        /\ MatchesErrorPattern(call) => ~ ret[1].success

\* the compiler exited with code 0 and left the artifact, and its stderr has
\* a diagnostic in upper case: failure
C36_Witness ==
    /\ Compiled
    /\ call.result.exitCode = Some(0) /\ call.exists
    /\ call.result.stderr = <<"E", "R", "R", "O", "R", ":">>
    /\ ~ ret[1].success

RECURSIVE SumExecutionTime(_, _)
\* the sum of the executionTime values of the outcomes from the k-th on
SumExecutionTime(res, k) ==
    IF k > Len(res) THEN 0
    ELSE res[k].executionTime + SumExecutionTime(res, k + 1)

\* the outcomes with verdict v
WithVerdict(res, v) == {k \in 1..Len(res) : res[k].verdict = v}

\* run r has returned the outcomes and the summary of a compiled program
ReturnedSummary(r) == Returned(r) /\ outcome[r][1].value.success

\* C37: in every summary returned for a run that compiled, totalTests is the
\* number of outcomes, passed the number of AC outcomes, passed + failed =
\* totalTests, the counts of verdictBreakdown are the numbers of outcomes
\* with each verdict and sum to totalTests, and totalTime is the sum of the
\* outcomes' executionTime values.
C37_SummaryInvariants ==
    \A r \in Runs :
        ReturnedSummary(r) =>
            LET res == outcome[r][1].value.results
                summary == outcome[r][1].value.summary
                breakdown == summary.verdictBreakdown
            IN  /\ summary.totalTests = Len(res)
                /\ summary.passed = Cardinality(WithVerdict(res, VERDICTS.AC))
                /\ summary.passed + summary.failed = summary.totalTests
                /\ DOMAIN breakdown =
                       {VERDICTS.AC, VERDICTS.WA, VERDICTS.TLE, VERDICTS.RE}
                /\ \A v \in DOMAIN breakdown :
                       breakdown[v] = Cardinality(WithVerdict(res, v))
                /\ breakdown[VERDICTS.AC] + breakdown[VERDICTS.WA]
                       + breakdown[VERDICTS.TLE] + breakdown[VERDICTS.RE]
                           = summary.totalTests
                /\ summary.totalTime = SumExecutionTime(res, 1)

\* two outcomes, one accepted and one that ran into a limit of 1000 ms
C37_Witness ==
    \E r \in Runs :
        /\ ReturnedSummary(r)
        /\ Len(outcome[r][1].value.results) = 2
        /\ outcome[r][1].value.summary.passed = 1
        /\ outcome[r][1].value.summary.verdictBreakdown[VERDICTS.TLE] = 1
        /\ outcome[r][1].value.summary.totalTime = 1000

\* the handlers whose POST /run has been issued and has not finished
Posting == {h \in Handlers : handler[h].pc \in {"fetch", "json"}}

\* handler h takes up an EXECUTE_CODE message in this step
TakesExecute(h) == handler[h].pc = "sent" /\ handler[h].type = "EXECUTE_CODE"

AlreadyInProgress == Some(ErrorResponse("Execution already in progress"))

\* C38: in the background worker at most one POST /run is in flight, and the
\* flag executionInProgress is set exactly while one is; an EXECUTE_CODE
\* message taken up while the flag is set is answered with the error
\* 'Execution already in progress', issues no request and leaves the flag
\* set; one taken up while the flag is clear is accepted; the flag is
\* cleared in the step in which the execution in flight finishes, with a
\* result or with an error.
C38_OneExecution ==
    /\ [](Cardinality(Posting) <= 1)
    /\ [](executionInProgress <=> Posting # {})
    /\ [][\A h \in Handlers :
             /\ (TakesExecute(h) /\ handler'[h] # handler[h] /\ executionInProgress) =>
                    /\ handler'[h].pc = "done"
                    /\ handler'[h].response = AlreadyInProgress
                    /\ executionInProgress'
                    /\ Posting' = Posting
             /\ (TakesExecute(h) /\ handler'[h] # handler[h] /\ ~ executionInProgress) =>
                    /\ handler'[h].pc = "fetch"
                    /\ executionInProgress'
             /\ (h \in Posting /\ handler'[h].pc = "done") =>
                    ~ executionInProgress']_vars

\* an EXECUTE_CODE message has been refused while the request of another is
\* in flight
C38_Witness ==
    \E h1, h2 \in Handlers :
        /\ h1 \in Posting
        /\ handler[h2].type = "EXECUTE_CODE" /\ handler[h2].pc = "done"
        /\ handler[h2].response = AlreadyInProgress
        /\ executionInProgress

\* handler h answers a GET_PROBLEM message in this step
AnswersGet(h) ==
    /\ handler[h].type = "GET_PROBLEM"
    /\ handler[h].pc # "done" /\ handler'[h].pc = "done"

NoHandlerInFlight == \A h \in Handlers : handler[h].pc \in {"idle", "done"}

\* C39: once CLEAR_PROBLEM has been answered, a GET_PROBLEM message that
\* arrives before the next STORE_PROBLEM is answered with no problem,
\* whatever handlers were in flight when the clear ran; and from the answer
\* to CLEAR_PROBLEM to the next STORE_PROBLEM the in-memory currentProblem
\* is the persisted one whenever no handler is in flight.
C39_ClearedStaysCleared ==
    /\ [][\A h \in Handlers :
             (AnswersGet(h) /\ handler'[h].afterClear /\ clearAcked') =>
                 handler'[h].response[1].problem = NULL]_vars
    /\ []((NoHandlerInFlight /\ clearAcked) => currentProblem = storage)

\* the executions that a runTests call has started and that have not finished
PopupExecutions ==
    {c \in PopupCalls : runTests[c].pc = "exec" /\ runTests[c].h \in Posting}

\* C40: the Run button is disabled as long as an execution started by
\* runTests is in flight, and no step enables it while one is, however
\* clicks, Ctrl+Enter and TRIGGER_RUN interleave.
C40_ButtonDisabledWhileRunning ==
    /\ [](PopupExecutions # {} => runBtn.disabled)
    /\ [][(runBtn.disabled /\ ~ runBtn'.disabled) => PopupExecutions' = {}]_vars
====
